---- MODULE Spec2Model ----
(***************************************************************************)
(* A model of the MySQL binlog event codec of src/binlog.rs: the file      *)
(* header, the 19-byte event header, the footer detection from a format    *)
(* description event (FDE), the event framer Event::read / Event::write,   *)
(* the stream reader that keeps the active FDE, and the BinlogFile         *)
(* iterator.  Bytes are the integers 0..255 and every record is laid out   *)
(* as the code lays it out (little-endian, real offsets and lengths).      *)
(*                                                                         *)
(* The byte source is modelled as a stream that delivers, at each read,    *)
(* the bytes of the next on-wire event (or a truncated event followed by   *)
(* end of input, or end of input): `wire` is source[ev_pos ..] as far as   *)
(* the read could see it.                                                  *)
(***************************************************************************)
EXTENDS Integers, Sequences, FiniteSets, TLC

VARIABLES
    phase,        \* "init" | "open" | "invalid" | "panicked"
    new_res,      \* result of BinlogFile::new
    reader_fde,   \* EventStreamReader.fde, the active FDE
    wire,         \* the bytes the source held for the last read, from ev_pos on
    eof,          \* the source has ended
    rres,         \* last result of EventStreamReader::read: [res, kind]
    item,         \* last item of BinlogFile::next: "none" | "some_ok" | "some_err" | "panic" | "-"
    event,        \* the event of the last successful read
    prev_fde,     \* reader.fde before the last read
    consumed,     \* bytes the last operation took from the source
    nwire,        \* complete on-wire events the reads went over so far
    nok,          \* successful reads so far
    nerr,         \* reads of a complete on-wire event that returned an error so far
    version,      \* the binlog version BinlogFile::new was asked for
    all_framed,   \* every on-wire event read so far declared event_size >= 19
    last_fde_wire,\* wire bytes of the most recently returned FDE event (<<>>: none yet)
    out,          \* result of Event::write / BinlogFileHeader::write on the last value
    payload,      \* result of Event::read_data on the last event
    hdr_in,       \* header codec: the 19 input bytes
    hdr_pc,       \* header codec: "in" | "read" | "written"
    hdr_val,      \* header codec: the decoded header
    hdr_out,      \* header codec: the bytes written back
    cd_in,        \* pure codecs: the input drawn (a body with its FDE, a value, a block)
    cd_pc,        \* pure codecs: "off" | "in" | "read" | "written" | "done"
    cd_val,       \* pure codecs: the result of the read (or of the function applied)
    cd_out        \* pure codecs: the result of the write

vars == <<phase, new_res, reader_fde, wire, eof, rres, item, event, prev_fde,
          consumed, nwire, nok, nerr, version, all_framed, last_fde_wire, out, payload,
          hdr_in, hdr_pc, hdr_val, hdr_out, cd_in, cd_pc, cd_val, cd_out>>

streamVars == <<phase, new_res, reader_fde, wire, eof, rres, item, event, prev_fde,
                consumed, nwire, nok, nerr, version, all_framed, last_fde_wire,
                out, payload>>

hdrVars == <<hdr_in, hdr_pc, hdr_val, hdr_out>>

codecVars == <<cd_in, cd_pc, cd_val, cd_out>>

(***************************************************************************)
(* Bounds of the model.                                                    *)
(***************************************************************************)
\* on-wire events one behaviour reads at most
MaxReads == 3

(***************************************************************************)
(* Byte helpers (byteorder's LittleEndian reads and writes).               *)
(***************************************************************************)
RECURSIVE WriteLE(_, _)
\* write_uN::<LittleEndian>: the w low bytes of n, least significant first
WriteLE(n, w) == IF w = 0 THEN <<>> ELSE <<n % 256>> \o WriteLE(n \div 256, w - 1)

RECURSIVE ReadLE(_)
\* read_uN::<LittleEndian>
ReadLE(b) == IF b = <<>> THEN 0 ELSE b[1] + 256 * ReadLE(Tail(b))

\* A u32 or u64 value is kept as its base-256 numeral, most significant digit
\* first (the model checker's integers end at 2^31 - 1).
Reverse(s) == [i \in 1..Len(s) |-> s[Len(s) + 1 - i]]

\* read_u32 / read_u64::<LittleEndian>
ReadWide(b) == Reverse(b)

\* write_u32 / write_u64::<LittleEndian>
WriteWide(n) == Reverse(n)

\* `n as usize`, for the numerals the model computes with
AsUsize(n) == ReadLE(Reverse(n))

\* saturating::Saturating subtraction on usize
SatSub(a, b) == IF a >= b THEN a - b ELSE 0

Min(a, b) == IF a <= b THEN a ELSE b

\* n zero bytes
Zeros(n) == [i \in 1..n |-> 0]

\* Option<T>
None == [some |-> FALSE]
Some(x) == [some |-> TRUE, v |-> x]

\* io::Result
Ok(x) == [res |-> "ok", val |-> x]
Err(k) == [res |-> "err", kind |-> k]

\* a successful read and input.get_limit() when it returns
OkLeft(x, n) == [res |-> "ok", val |-> x, left |-> n]

(***************************************************************************)
(* Event types.                                                            *)
(***************************************************************************)
UNKNOWN_EVENT == 0
ROTATE_EVENT == 4
FORMAT_DESCRIPTION_EVENT == 15
XID_EVENT == 16
PREVIOUS_GTIDS_EVENT == 35
PARTIAL_UPDATE_ROWS_EVENT == 39
ENUM_END_EVENT == 40

\* the discriminants enum EventType declares: 0x00 ..= 0x27
EventTypeDeclared(byte) == byte \in UNKNOWN_EVENT..PARTIAL_UPDATE_ROWS_EVENT

\* TryFrom<u8> for EventType: the arms 0x00 ..= 0x23, everything else is unknown
EventType_try_from(byte) ==
    IF byte \in UNKNOWN_EVENT..PREVIOUS_GTIDS_EVENT THEN Ok(byte) ELSE Err(byte)

(***************************************************************************)
(* Binlog file header.                                                     *)
(***************************************************************************)
BinlogFileHeader_LEN == 4
BinlogFileHeader_VALUE == <<254, 98, 105, 110>>

\* a mutant: only the first byte of the sentinel is compared
BinlogFileHeader_read_FirstByteOnly(input) ==
    IF Len(input) < BinlogFileHeader_LEN THEN Err("UnexpectedEof")
    ELSE IF input[1] # BinlogFileHeader_VALUE[1] THEN Err("InvalidData")
    ELSE Ok("BinlogFileHeader")

\* BinlogFileHeader::read: read_exact of 4 bytes, then the comparison
BinlogFileHeader_read(input) ==
    IF Len(input) < BinlogFileHeader_LEN THEN Err("UnexpectedEof")
    ELSE IF SubSeq(input, 1, BinlogFileHeader_LEN) # BinlogFileHeader_VALUE
         THEN Err("InvalidData")
    ELSE Ok("BinlogFileHeader")

\* BinlogFileHeader::write
BinlogFileHeader_write == Ok(BinlogFileHeader_VALUE)

(***************************************************************************)
(* Event header.                                                           *)
(***************************************************************************)
BinlogEventHeader_LEN == 19

\* input.limit(event_size - 19).get_limit() before the first read
Limit(event_size) == SatSub(event_size, BinlogEventHeader_LEN)

\* a mutant: the flags are kept through EventFlags::from_bits_truncate
BinlogEventHeader_read_TruncFlags(input) ==
    IF Len(input) < BinlogEventHeader_LEN THEN Err("UnexpectedEof")
    ELSE Ok([timestamp  |-> ReadWide(SubSeq(input, 1, 4)),
             event_type |-> input[5],
             server_id  |-> ReadWide(SubSeq(input, 6, 9)),
             event_size |-> ReadWide(SubSeq(input, 10, 13)),
             log_pos    |-> ReadWide(SubSeq(input, 14, 17)),
             flags      |-> ReadLE(SubSeq(input, 18, 19)) % 1024])

\* BinlogEventHeader::read: six little-endian fields, the raw values are kept
BinlogEventHeader_read(input) ==
    IF Len(input) < BinlogEventHeader_LEN THEN Err("UnexpectedEof")
    ELSE Ok([timestamp  |-> ReadWide(SubSeq(input, 1, 4)),
             event_type |-> input[5],
             server_id  |-> ReadWide(SubSeq(input, 6, 9)),
             event_size |-> ReadWide(SubSeq(input, 10, 13)),
             log_pos    |-> ReadWide(SubSeq(input, 14, 17)),
             flags      |-> ReadLE(SubSeq(input, 18, 19))])

\* BinlogEventHeader::write
BinlogEventHeader_write(h) ==
    WriteWide(h.timestamp) \o <<h.event_type>> \o WriteWide(h.server_id)
        \o WriteWide(h.event_size) \o WriteWide(h.log_pos) \o WriteLE(h.flags, 2)

(***************************************************************************)
(* Event footer: the checksum algorithm, detected from the FDE body.       *)
(***************************************************************************)
BINLOG_CHECKSUM_ALG_DESC_LEN == 1
BINLOG_CHECKSUM_LEN == 4
SERVER_VER_LEN == 50
SERVER_VER_OFFSET == 2
BINLOG_CHECKSUM_ALG_OFF == 0
BINLOG_CHECKSUM_ALG_CRC32 == 1

\* BinlogEventFooter::CHECKSUM_VERSION_PRODUCT
CHECKSUM_VERSION_PRODUCT == <<5, 6, 1>>

\* ASCII
DOT == 46
DIGIT0 == 48
DIGIT9 == 57

RECURSIVE UpToNul(_)
\* the text of a NUL-padded field: the bytes before the first NUL
UpToNul(s) == IF s = <<>> \/ s[1] = 0 THEN <<>> ELSE <<s[1]>> \o UpToNul(Tail(s))

RECURSIVE LeadingNumber(_, _)
\* the decimal value of the leading digits of s (0 when there are none)
LeadingNumber(s, acc) ==
    IF s = <<>> \/ s[1] < DIGIT0 \/ s[1] > DIGIT9 THEN acc
    ELSE LeadingNumber(Tail(s), acc * 10 + (s[1] - DIGIT0))

RECURSIVE AfterDot(_)
\* what follows the first '.' of s (empty when s has none)
AfterDot(s) == IF s = <<>> THEN <<>> ELSE IF s[1] = DOT THEN Tail(s) ELSE AfterDot(Tail(s))

\* misc::split_version: (major, minor, patch) of a server version string,
\* a missing or non-numeric component counting as 0
split_version(server_version) ==
    LET s == UpToNul(server_version)
    IN  <<LeadingNumber(s, 0),
          LeadingNumber(AfterDot(s), 0),
          LeadingNumber(AfterDot(AfterDot(s)), 0)>>

\* the ordering of (u8, u8, u8) tuples
TupleLess(a, b) ==
    \/ a[1] < b[1]
    \/ a[1] = b[1] /\ a[2] < b[2]
    \/ a[1] = b[1] /\ a[2] = b[2] /\ a[3] < b[3]

\* a mutant: the version gate compares with <= instead of <
BinlogEventFooter_read_GateLeq(buf) ==
    IF Len(buf) >= SERVER_VER_OFFSET + SERVER_VER_LEN
    THEN LET server_version ==
                 SubSeq(buf, SERVER_VER_OFFSET + 1,
                        SERVER_VER_OFFSET + SERVER_VER_LEN - 1) \o <<0>>
         IN  IF ~TupleLess(CHECKSUM_VERSION_PRODUCT, split_version(server_version))
             THEN [checksum_alg |-> None]
             ELSE [checksum_alg |-> Some(buf[Len(buf)
                      - (BINLOG_CHECKSUM_ALG_DESC_LEN + BINLOG_CHECKSUM_LEN) + 1])]
    ELSE [checksum_alg |-> None]

\* BinlogEventFooter::read(buf): buf is the on-wire body of an FDE
BinlogEventFooter_read(buf) ==
    IF Len(buf) >= SERVER_VER_OFFSET + SERVER_VER_LEN
    THEN LET server_version ==
                 SubSeq(buf, SERVER_VER_OFFSET + 1,
                        SERVER_VER_OFFSET + SERVER_VER_LEN - 1) \o <<0>>
         IN  IF TupleLess(split_version(server_version), CHECKSUM_VERSION_PRODUCT)
             THEN [checksum_alg |-> None]
             ELSE [checksum_alg |-> Some(buf[Len(buf)
                      - (BINLOG_CHECKSUM_ALG_DESC_LEN + BINLOG_CHECKSUM_LEN) + 1])]
    ELSE [checksum_alg |-> None]

\* impl Default for BinlogEventFooter
BinlogEventFooter_default == [checksum_alg |-> Some(BINLOG_CHECKSUM_ALG_OFF)]

\* BinlogEventFooter::get_checksum_alg: Ok(None), Ok(Some(alg)) or Err(raw)
get_checksum_alg(footer) ==
    IF ~footer.checksum_alg.some THEN Ok(None)
    ELSE IF footer.checksum_alg.v \in {BINLOG_CHECKSUM_ALG_OFF, BINLOG_CHECKSUM_ALG_CRC32}
         THEN Ok(Some(footer.checksum_alg.v))
    ELSE Err(footer.checksum_alg.v)

(***************************************************************************)
(* Format description event.                                               *)
(***************************************************************************)
\* the fixed part of an FDE body: version, server version, timestamp, header length
FDE_FIXED_LEN == 57

\* FormatDescriptionEvent::new(binlog_version)
FormatDescriptionEvent_new(binlog_version) ==
    [binlog_version            |-> binlog_version,
     server_version            |-> Zeros(SERVER_VER_LEN),
     create_timestamp          |-> Zeros(4),
     event_type_header_lengths |-> <<>>,
     footer                    |-> BinlogEventFooter_default]

\* FormatDescriptionEvent::read(event_size, _, input): input is limited to
\* event_size - 19 bytes; every read past the end fails with UnexpectedEof
FormatDescriptionEvent_read(event_size, input) ==
    LET limit == SatSub(event_size, BinlogEventHeader_LEN)
    IN  IF Min(limit, Len(input)) < FDE_FIXED_LEN \/ Len(input) < limit
        THEN Err("UnexpectedEof")
        ELSE Ok([binlog_version            |-> ReadLE(SubSeq(input, 1, 2)),
                 server_version            |-> SubSeq(input, 3, 52),
                 create_timestamp          |-> ReadWide(SubSeq(input, 53, 56)),
                 event_type_header_lengths |-> SubSeq(input, FDE_FIXED_LEN + 1, limit),
                 footer                    |-> BinlogEventFooter_default])

\* FormatDescriptionEvent::len
FormatDescriptionEvent_len(fde) == FDE_FIXED_LEN + Len(fde.event_type_header_lengths)

\* FormatDescriptionEvent::write: the inverse, the constant 19 as header length
FormatDescriptionEvent_write(fde) ==
    Ok(WriteLE(fde.binlog_version, 2) \o fde.server_version
         \o WriteWide(fde.create_timestamp) \o <<BinlogEventHeader_LEN>>
         \o fde.event_type_header_lengths)

(***************************************************************************)
(* Checksum engine.  crc32fast is an external crate: its digest is         *)
(* modelled by a checksum of the same shape (a function of the bytes in    *)
(* order that fills four bytes), two sums over the bytes; it stays below   *)
(* 2^31, the range of the model checker's integers.                        *)
(***************************************************************************)
RECURSIVE byte_sum(_, _, _)
\* the sum of bytes[lo..hi]
byte_sum(bytes, lo, hi) ==
    IF lo > hi THEN 0
    ELSE IF lo = hi THEN bytes[lo]
    ELSE byte_sum(bytes, lo, (lo + hi) \div 2) + byte_sum(bytes, (lo + hi) \div 2 + 1, hi)

RECURSIVE weighted_sum(_, _, _)
\* the sum of i * bytes[i] over lo..hi
weighted_sum(bytes, lo, hi) ==
    IF lo > hi THEN 0
    ELSE IF lo = hi THEN lo * bytes[lo]
    ELSE weighted_sum(bytes, lo, (lo + hi) \div 2)
         + weighted_sum(bytes, (lo + hi) \div 2 + 1, hi)

\* crc32fast::Hasher: update(..)* then finalize()
crc32(bytes) ==
    ((weighted_sum(bytes, 1, Len(bytes)) % 32749) * 65536)
    + ((1 + byte_sum(bytes, 1, Len(bytes))) % 65521)

\* is_fde: header.event_type.0 == EventType::FORMAT_DESCRIPTION_EVENT as u8
is_fde(header) == header.event_type = FORMAT_DESCRIPTION_EVENT

\* Event::calc_checksum(alg): header, data, and the algorithm byte for an FDE
calc_checksum(ev, alg) ==
    crc32(BinlogEventHeader_write(ev.header) \o ev.data
            \o (IF is_fde(ev.header) THEN <<alg>> ELSE <<>>))

(***************************************************************************)
(* Event framer.                                                           *)
(***************************************************************************)
\* the length of the body buffer: S(event_size) - S(binlog_header_len)
body_len(header) == SatSub(AsUsize(header.event_size), BinlogEventHeader_LEN)

\* a mutant: the policy as "the footer says CRC32"
contains_checksum_Crc32Only(footer, fde_event) ==
    footer.checksum_alg = Some(BINLOG_CHECKSUM_ALG_CRC32)

\* contains_checksum: the footer has an algorithm byte, and the event is the
\* FDE or the byte is not 0
contains_checksum(footer, fde_event) ==
    footer.checksum_alg.some /\ (fde_event \/ footer.checksum_alg # Some(0))

\* the footer of the event being read: parsed from the body of an FDE,
\* inherited from the active FDE otherwise
event_footer(fde, header, data) ==
    IF is_fde(header) THEN BinlogEventFooter_read(data) ELSE fde.footer

\* a mutant: the algorithm description of an FDE is left in the data
bytes_to_truncate_NoAlgDesc(footer, fde_event) ==
    IF contains_checksum(footer, fde_event) THEN BINLOG_CHECKSUM_LEN ELSE 0

\* bytes_to_truncate: the algorithm description of an FDE, and the checksum
bytes_to_truncate(footer, fde_event) ==
    (IF fde_event /\ footer.checksum_alg.some THEN BINLOG_CHECKSUM_ALG_DESC_LEN ELSE 0)
    + (IF contains_checksum(footer, fde_event) THEN BINLOG_CHECKSUM_LEN ELSE 0)

\* Event::read(_, fde, input).  input: the bytes the source can still deliver.
\*   header cut short        -> Err(UnexpectedEof) (the ? on the header read)
\*   body cut short          -> panic (read_exact(..).unwrap())
\*   checksum in a body < 4  -> panic (data.len() - 4 underflows / slices out of range)
Event_read(fde, input) ==
    LET hr == BinlogEventHeader_read(input)
    IN  IF hr.res = "err" THEN [res |-> "err", kind |-> hr.kind, consumed |-> Len(input)]
        ELSE
        LET header == hr.val
            n      == body_len(header)
        IN  IF Len(input) - BinlogEventHeader_LEN < n
            THEN [res |-> "panic", consumed |-> Len(input)]
            ELSE
            LET data   == SubSeq(input, BinlogEventHeader_LEN + 1, BinlogEventHeader_LEN + n)
                footer == event_footer(fde, header, data)
                cut    == bytes_to_truncate(footer, is_fde(header))
                has    == contains_checksum(footer, is_fde(header))
            IN  IF (has /\ Len(data) < BINLOG_CHECKSUM_LEN) \/ Len(data) < cut
                THEN [res |-> "panic", consumed |-> BinlogEventHeader_LEN + n]
                ELSE [res      |-> "ok",
                      consumed |-> BinlogEventHeader_LEN + n,
                      val      |->
                        [header   |-> header,
                         fde      |-> IF is_fde(header)
                                      THEN [fde EXCEPT !.footer = footer] ELSE fde,
                         data     |-> SubSeq(data, 1, Len(data) - cut),
                         footer   |-> footer,
                         checksum |-> IF has
                                      THEN SubSeq(data, Len(data) - BINLOG_CHECKSUM_LEN + 1,
                                                  Len(data))
                                      ELSE Zeros(BINLOG_CHECKSUM_LEN)]]

\* Event::len
Event_len(ev) ==
    LET alg == get_checksum_alg(ev.footer)
    IN  BinlogEventHeader_LEN + Len(ev.data)
        + (IF alg.res = "ok" /\ alg.val.some
           THEN (IF is_fde(ev.header) THEN BINLOG_CHECKSUM_ALG_DESC_LEN ELSE 0)
                + (IF is_fde(ev.header) \/ alg.val.v # BINLOG_CHECKSUM_ALG_OFF
                   THEN BINLOG_CHECKSUM_LEN ELSE 0)
           ELSE 0)

\* Event::write: header, data, then for a known algorithm the algorithm byte
\* of an FDE and the checksum; the output is limited to Event::len bytes
Event_write(ev) ==
    LET alg == get_checksum_alg(ev.footer)
        bytes ==
            BinlogEventHeader_write(ev.header) \o ev.data
            \o (IF alg.res = "ok" /\ alg.val.some
                THEN (IF is_fde(ev.header) THEN <<alg.val.v>> ELSE <<>>)
                     \o (IF alg.val.v # BINLOG_CHECKSUM_ALG_OFF \/ is_fde(ev.header)
                         THEN WriteLE(calc_checksum(ev, alg.val.v), 4) ELSE <<>>)
                ELSE <<>>)
    IN  IF Len(bytes) > Event_len(ev) THEN Err("WriteZero") ELSE Ok(bytes)

\* Event::read_event::<FormatDescriptionEvent>
read_event_fde(ev) ==
    FormatDescriptionEvent_read(BinlogEventHeader_LEN + Len(ev.data), ev.data)

(***************************************************************************)
(* Stream reader and binlog file.                                          *)
(***************************************************************************)
\* a mutant: the footer of the new FDE is not assigned
install_fde_NoFooter(ev, decoded) == decoded

\* the FDE the reader installs: the decoded one with the event's footer
install_fde(ev, decoded) == [decoded EXCEPT !.footer = ev.footer]

\* a mutant: the footer of an FDE event is assigned to the reader's FDE
\* before the event is decoded
EventStreamReader_read_FooterFirst(fde, input) ==
    LET r == Event_read(fde, input)
    IN  IF r.res = "panic" THEN [res |-> "panic", fde |-> fde, consumed |-> r.consumed]
        ELSE IF r.res = "err"
        THEN [res |-> "err", kind |-> r.kind, fde |-> fde, consumed |-> r.consumed]
        ELSE IF EventType_try_from(r.val.header.event_type) = Ok(FORMAT_DESCRIPTION_EVENT)
        THEN LET d == read_event_fde(r.val)
             IN  IF d.res = "err"
                 THEN [res |-> "err", kind |-> d.kind,
                       fde |-> [fde EXCEPT !.footer = r.val.footer],
                       consumed |-> r.consumed]
                 ELSE [res |-> "ok", val |-> r.val, fde |-> install_fde(r.val, d.val),
                       consumed |-> r.consumed]
        ELSE [res |-> "ok", val |-> r.val, fde |-> fde, consumed |-> r.consumed]

\* EventStreamReader::read(input): [res, kind, val, fde, consumed], fde being
\* the reader's FDE after the call
EventStreamReader_read(fde, input) ==
    LET r == Event_read(fde, input)
    IN  IF r.res = "panic" THEN [res |-> "panic", fde |-> fde, consumed |-> r.consumed]
        ELSE IF r.res = "err"
        THEN [res |-> "err", kind |-> r.kind, fde |-> fde, consumed |-> r.consumed]
        ELSE IF EventType_try_from(r.val.header.event_type) = Ok(FORMAT_DESCRIPTION_EVENT)
        THEN LET d == read_event_fde(r.val)
             IN  IF d.res = "err"
                 THEN [res |-> "err", kind |-> d.kind, fde |-> fde, consumed |-> r.consumed]
                 ELSE [res |-> "ok", val |-> r.val, fde |-> install_fde(r.val, d.val),
                       consumed |-> r.consumed]
        ELSE [res |-> "ok", val |-> r.val, fde |-> fde, consumed |-> r.consumed]

\* BinlogFile::next: the item made of the reader's result
BinlogFile_next_item(r) ==
    IF r.res = "panic" THEN "panic"
    ELSE IF r.res = "ok" THEN "some_ok"
    ELSE IF r.kind = "UnexpectedEof" THEN "none"
    ELSE "some_err"

(***************************************************************************)
(* Post-header lengths and the payloads Event::read_data decodes.          *)
(***************************************************************************)
\* the built-in post-header length of event type t = index (1 ..= 40)
DefaultHeaderLengths ==
    <<56, 13, 0, 8, 0, 0, 0, 0, 4, 0,
      4, 0, 0, 0, 96, 0, 4, 26, 8, 0,
      0, 0, 8, 8, 8, 2, 0, 0, 0, 10,
      10, 10, 42, 42, 0, 18, 52, 0, 10, 0>>

\* a mutant: the table of the FDE is not consulted
get_event_type_header_length_DefaultOnly(fde, event_type) ==
    IF event_type = UNKNOWN_EVENT THEN 0 ELSE DefaultHeaderLengths[event_type]

\* FormatDescriptionEvent::get_event_type_header_length
get_event_type_header_length(fde, event_type) ==
    IF event_type = UNKNOWN_EVENT THEN 0
    ELSE IF event_type <= Len(fde.event_type_header_lengths)
         THEN fde.event_type_header_lengths[event_type]
    ELSE DefaultHeaderLengths[event_type]

\* RotateEvent::read: position: u64, name: the rest
RotateEvent_read(event_size, fde, input) ==
    LET limit == SatSub(event_size, BinlogEventHeader_LEN)
    IN  IF Min(limit, Len(input)) < 8 \/ Len(input) < limit THEN Err("UnexpectedEof")
        ELSE OkLeft([variant  |-> "RotateEvent",
                     position |-> ReadWide(SubSeq(input, 1, 8)),
                     name     |-> SubSeq(input, 9, limit)],
                Limit(event_size) - limit)

\* RotateEvent::write
RotateEvent_write(ev) == Ok(WriteWide(ev.position) \o ev.name)

\* XidEvent::read: the declared post-header is skipped, xid: u64, nothing after
XidEvent_read(event_size, fde, input) ==
    LET limit == Min(SatSub(event_size, BinlogEventHeader_LEN), Len(input))
        skip  == get_event_type_header_length(fde, XID_EVENT)
    IN  IF limit < skip + 8 THEN Err("UnexpectedEof")
        ELSE IF SatSub(event_size, BinlogEventHeader_LEN) > skip + 8 THEN Err("Other")
        ELSE OkLeft([variant |-> "XidEvent",
                     xid     |-> ReadWide(SubSeq(input, skip + 1, skip + 8))],
                Limit(event_size) - (skip + 8))

\* XidEvent::write
XidEvent_write(ev) == Ok(WriteWide(ev.xid))

(***************************************************************************)
(* Limited readers and writers (crate::misc::LimitRead / LimitWrite) and   *)
(* length-encoded integers (crate::io): a limited reader hands out at most *)
(* `limit` bytes and a read past them fails with UnexpectedEof; a limited  *)
(* writer takes at most `limit` bytes and write_all past them fails with   *)
(* WriteZero after the bytes that fitted were written.                     *)
(***************************************************************************)
U8_MAX == 255
U16_MAX == 65535

\* a length read from a u32 field, as usize; 2^30 stands for every larger one
ReadLen(b) == IF b[4] >= 64 THEN 1073741824 ELSE ReadLE(b)

\* what a reader limited to event_size - 19 bytes can hand out of `input`
Limited_read(event_size, input) ==
    SubSeq(input, 1, Min(Limit(event_size), Len(input)))

\* the source ends before the limit does: reading "the rest" fails
EndsEarly(event_size, input) == Len(input) < Limit(event_size)

\* output.limit(n) over an empty Vec<u8>
Limited_write(n) == [out |-> <<>>, lim |-> n, err |-> "-"]

\* w.limit(inner).write_all(bytes)
write_limited(w, inner, bytes) ==
    IF w.err # "-" THEN w
    ELSE LET room == Min(w.lim, inner)
         IN  IF Len(bytes) <= room
             THEN [w EXCEPT !.out = @ \o bytes, !.lim = @ - Len(bytes)]
             ELSE [w EXCEPT !.out = @ \o SubSeq(bytes, 1, room),
                            !.lim = @ - room,
                            !.err = "WriteZero"]

\* w.write_all(bytes)
write_all(w, bytes) == write_limited(w, w.lim, bytes)

\* the io::Result of the writes
Written(w) == IF w.err = "-" THEN Ok(w.out) ELSE Err(w.err)

\* ReadMysqlExt::read_lenenc_int at offset pos of b: [ok, val, next]
read_lenenc_int(b, pos) ==
    LET fail == [ok |-> FALSE, val |-> 0, next |-> pos]
        wide(k) == IF Len(b) < pos + 1 + k THEN fail
                   ELSE [ok   |-> TRUE,
                         val  |-> IF k = 8 /\ SubSeq(b, pos + 5, pos + 9) # Zeros(5)
                                  THEN 16777216
                                  ELSE ReadLE(SubSeq(b, pos + 2, pos + 1 + Min(k, 3))),
                         next |-> pos + 1 + k]
    IN  IF Len(b) < pos + 1 THEN fail
        ELSE CASE b[pos + 1] <= 250 -> [ok |-> TRUE, val |-> b[pos + 1], next |-> pos + 1]
               [] b[pos + 1] = 252 -> wide(2)
               [] b[pos + 1] = 253 -> wide(3)
               [] b[pos + 1] = 254 -> wide(8)
               [] OTHER -> fail

\* WriteMysqlExt::write_lenenc_int: the shortest form of n
write_lenenc_int(n) ==
    IF n < 251 THEN <<n>>
    ELSE IF n < 65536 THEN <<252>> \o WriteLE(n, 2)
    ELSE IF n < 16777216 THEN <<253>> \o WriteLE(n, 3)
    ELSE <<254>> \o WriteLE(n, 3) \o Zeros(5)

\* crate::misc::lenenc_int_len
lenenc_int_len(n) == Len(write_lenenc_int(n))

\* a mutant: the bit vector is not truncated
BitVec_from_vec_NoTruncate(bytes, n) == [raw |-> bytes, bits |-> 8 * Len(bytes)]

\* BitVec::from_vec(bytes) truncated to n bits: the storage keeps its bytes
BitVec_from_vec(bytes, n) == [raw |-> bytes, bits |-> Min(n, 8 * Len(bytes))]

\* BitVec::as_raw_slice: the bytes that hold the live bits
as_raw_slice(bv) == SubSeq(bv.raw, 1, (bv.bits + 7) \div 8)

(***************************************************************************)
(* The payload codecs (BinlogStruct::read / write / len of each payload).  *)
(* len's final clamp to u32::MAX - 19 lies beyond every length of the      *)
(* model and is left out.                                                  *)
(***************************************************************************)
QUERY_EVENT == 2
INTVAR_EVENT == 5
RAND_EVENT == 13
USER_VAR_EVENT == 14
BEGIN_LOAD_QUERY_EVENT == 17
EXECUTE_LOAD_QUERY_EVENT == 18
TABLE_MAP_EVENT == 19
INCIDENT_EVENT == 26
ROWS_QUERY_EVENT == 29
WRITE_ROWS_EVENT == 30
UPDATE_ROWS_EVENT == 31
DELETE_ROWS_EVENT == 32
UPDATE_ROWS_EVENT_V1 == 24
DELETE_ROWS_EVENT_V1 == 25

\* QueryEvent::read
QueryEvent_read(event_size, fde, input) ==
    LET b    == Limited_read(event_size, input)
        skip == SatSub(get_event_type_header_length(fde, QUERY_EVENT), 13)
    IN  IF Len(b) < 13 THEN Err("UnexpectedEof")
        ELSE LET schema_len      == b[9]
                 status_vars_len == ReadLE(SubSeq(b, 12, 13))
                 sv              == 13 + skip
                 sc              == sv + status_vars_len
                 nul             == sc + schema_len
             IN  IF Len(b) < nul + 1 \/ EndsEarly(event_size, input)
                 THEN Err("UnexpectedEof")
                 ELSE OkLeft([variant        |-> "QueryEvent",
                          thread_id      |-> ReadWide(SubSeq(b, 1, 4)),
                          execution_time |-> ReadWide(SubSeq(b, 5, 8)),
                          error_code     |-> ReadLE(SubSeq(b, 10, 11)),
                          status_vars    |-> SubSeq(b, sv + 1, sc),
                          schema         |-> SubSeq(b, sc + 1, nul),
                          query          |-> SubSeq(b, nul + 2, Len(b))],
                Limit(event_size) - (Len(b)))

\* a mutant: every field is counted at its full length
QueryEvent_len_Untruncated(ev) ==
    13 + Len(ev.status_vars) + Len(ev.schema) + 1 + Len(ev.query)

\* QueryEvent::len
QueryEvent_len(ev) ==
    13 + Min(Len(ev.status_vars), U16_MAX) + Min(Len(ev.schema), U8_MAX) + 1 + Len(ev.query)

\* a mutant: over-long fields are cut to what their prefixes can express
QueryEvent_write_Clamping(ev) ==
    LET schema_len      == Min(Len(ev.schema), U8_MAX)
        status_vars_len == Min(Len(ev.status_vars), U16_MAX)
    IN  Ok(WriteWide(ev.thread_id) \o WriteWide(ev.execution_time)
           \o <<schema_len>> \o WriteLE(ev.error_code, 2)
           \o WriteLE(status_vars_len, 2)
           \o SubSeq(ev.status_vars, 1, status_vars_len)
           \o SubSeq(ev.schema, 1, schema_len) \o <<0>> \o ev.query)

\* QueryEvent::write
QueryEvent_write(ev) ==
    LET schema_len      == Min(Len(ev.schema), U8_MAX)
        status_vars_len == Min(Len(ev.status_vars), U16_MAX)
        w1 == write_all(Limited_write(QueryEvent_len(ev)),
                        WriteWide(ev.thread_id) \o WriteWide(ev.execution_time)
                        \o <<schema_len>> \o WriteLE(ev.error_code, 2)
                        \o WriteLE(status_vars_len, 2))
        w2 == write_limited(w1, status_vars_len, ev.status_vars)
        w3 == write_limited(w2, schema_len, ev.schema)
        w4 == write_all(w3, <<0>>)
    IN  Written(write_all(w4, ev.query))

\* IntvarEvent::read: the declared post-header is skipped, subtype: u8, value: u64
IntvarEvent_read(event_size, fde, input) ==
    LET b    == Limited_read(event_size, input)
        skip == get_event_type_header_length(fde, INTVAR_EVENT)
    IN  IF Len(b) < skip + 9 THEN Err("UnexpectedEof")
        ELSE IF Limit(event_size) > skip + 9 THEN Err("Other")
        ELSE OkLeft([variant |-> "IntvarEvent",
                 subtype |-> b[skip + 1],
                 value   |-> ReadWide(SubSeq(b, skip + 2, skip + 9))],
                Limit(event_size) - (skip + 9))

\* IntvarEvent::write
IntvarEvent_write(ev) == Ok(<<ev.subtype>> \o WriteWide(ev.value))

\* RandEvent::read: seed1: u64, seed2: u64
RandEvent_read(event_size, fde, input) ==
    LET b == Limited_read(event_size, input)
    IN  IF Len(b) < 16 THEN Err("UnexpectedEof")
        ELSE IF Limit(event_size) > 16 THEN Err("Other")
        ELSE OkLeft([variant |-> "RandEvent",
                 seed1   |-> ReadWide(SubSeq(b, 1, 8)),
                 seed2   |-> ReadWide(SubSeq(b, 9, 16))],
                Limit(event_size) - (16))

\* RandEvent::write
RandEvent_write(ev) == Ok(WriteWide(ev.seed1) \o WriteWide(ev.seed2))

\* BeginLoadQueryEvent::read: file_id: u32, block_data: the rest
BeginLoadQueryEvent_read(event_size, fde, input) ==
    LET b == Limited_read(event_size, input)
    IN  IF Len(b) < 4 \/ EndsEarly(event_size, input) THEN Err("UnexpectedEof")
        ELSE OkLeft([variant    |-> "BeginLoadQueryEvent",
                 file_id    |-> ReadWide(SubSeq(b, 1, 4)),
                 block_data |-> SubSeq(b, 5, Len(b))],
                Limit(event_size) - (Len(b)))

\* BeginLoadQueryEvent::len
BeginLoadQueryEvent_len(ev) == 4 + Len(ev.block_data)

\* BeginLoadQueryEvent::write
BeginLoadQueryEvent_write(ev) ==
    Written(write_all(write_all(Limited_write(BeginLoadQueryEvent_len(ev)),
                                WriteWide(ev.file_id)),
                      ev.block_data))

\* ExecuteLoadQueryEvent::read
ExecuteLoadQueryEvent_read(event_size, fde, input) ==
    LET b == Limited_read(event_size, input)
    IN  IF Len(b) < 26 THEN Err("UnexpectedEof")
        ELSE LET schema_len      == b[9]
                 status_vars_len == ReadLE(SubSeq(b, 12, 13))
                 sc              == 26 + status_vars_len
                 nul             == sc + schema_len
             IN  IF Len(b) < nul + 1 \/ EndsEarly(event_size, input)
                 THEN Err("UnexpectedEof")
                 ELSE OkLeft([variant        |-> "ExecuteLoadQueryEvent",
                          thread_id      |-> ReadWide(SubSeq(b, 1, 4)),
                          execution_time |-> ReadWide(SubSeq(b, 5, 8)),
                          error_code     |-> ReadLE(SubSeq(b, 10, 11)),
                          status_vars    |-> SubSeq(b, 27, sc),
                          schema         |-> SubSeq(b, sc + 1, nul),
                          file_id        |-> ReadWide(SubSeq(b, 14, 17)),
                          start_pos      |-> ReadWide(SubSeq(b, 18, 21)),
                          end_pos        |-> ReadWide(SubSeq(b, 22, 25)),
                          dup_handling   |-> b[26],
                          query          |-> SubSeq(b, nul + 2, Len(b))],
                Limit(event_size) - (Len(b)))

\* ExecuteLoadQueryEvent::len
ExecuteLoadQueryEvent_len(ev) ==
    26 + Min(Len(ev.status_vars), U16_MAX - 13) + Min(Len(ev.schema), U8_MAX)
       + 1 + Len(ev.query)

\* ExecuteLoadQueryEvent::write
ExecuteLoadQueryEvent_write(ev) ==
    LET w1 == write_all(Limited_write(ExecuteLoadQueryEvent_len(ev)),
                        WriteWide(ev.thread_id) \o WriteWide(ev.execution_time)
                        \o <<Min(Len(ev.schema), U8_MAX)>> \o WriteLE(ev.error_code, 2)
                        \o WriteLE(Min(Len(ev.status_vars), U16_MAX), 2)
                        \o WriteWide(ev.file_id) \o WriteWide(ev.start_pos)
                        \o WriteWide(ev.end_pos) \o <<ev.dup_handling>>)
        w2 == write_limited(w1, U16_MAX, ev.status_vars)
        w3 == write_limited(w2, U8_MAX, ev.schema)
        w4 == write_all(w3, <<0>>)
    IN  Written(write_all(w4, ev.query))

\* ItemResult::STRING_RESULT and the charset of a null user variable
STRING_RESULT == 0
BINARY_CHARSET == 63

\* UserVarEvent::read
UserVarEvent_read(event_size, fde, input) ==
    LET b == Limited_read(event_size, input)
    IN  IF Len(b) < 4 THEN Err("UnexpectedEof")
        ELSE LET name_len == ReadLen(SubSeq(b, 1, 4))
                 p        == 4 + name_len
             IN  IF Len(b) < p + 1 THEN Err("UnexpectedEof")
                 ELSE IF b[p + 1] # 0
                 THEN OkLeft([variant    |-> "UserVarEvent",
                          name       |-> SubSeq(b, 5, p),
                          is_null    |-> TRUE,
                          value_type |-> STRING_RESULT,
                          charset    |-> ReadWide(WriteLE(BINARY_CHARSET, 4)),
                          value      |-> <<>>,
                          flags      |-> 0],
                         Limit(event_size) - (p + 1))
                 ELSE IF Len(b) < p + 10 THEN Err("UnexpectedEof")
                 ELSE LET value_len == ReadLen(SubSeq(b, p + 7, p + 10))
                          q         == p + 10 + value_len
                          has_flags == Limit(event_size) > q
                      IN  IF Len(b) < q \/ (has_flags /\ Len(b) < q + 1)
                          THEN Err("UnexpectedEof")
                          ELSE IF Limit(event_size) > q + 1 THEN Err("Other")
                          ELSE OkLeft([variant    |-> "UserVarEvent",
                                   name       |-> SubSeq(b, 5, p),
                                   is_null    |-> FALSE,
                                   value_type |-> b[p + 2],
                                   charset    |-> ReadWide(SubSeq(b, p + 3, p + 6)),
                                   value      |-> SubSeq(b, p + 11, q),
                                   flags      |-> IF has_flags THEN b[q + 1] ELSE 0],
                                  Limit(event_size) - (q + (IF has_flags THEN 1 ELSE 0)))

\* UserVarEvent::len
UserVarEvent_len(ev) ==
    4 + Len(ev.name) + 1 + (IF ev.is_null THEN 0 ELSE 1 + 4 + 4 + Len(ev.value) + 1)

\* UserVarEvent::write
UserVarEvent_write(ev) ==
    LET w1 == write_all(Limited_write(UserVarEvent_len(ev)),
                        WriteLE(Len(ev.name), 4) \o ev.name
                        \o <<IF ev.is_null THEN 1 ELSE 0>>)
    IN  IF ev.is_null THEN Written(w1)
        ELSE Written(write_all(w1, <<ev.value_type>> \o WriteWide(ev.charset)
                                   \o WriteLE(Len(ev.value), 4) \o ev.value
                                   \o <<ev.flags>>))

\* IncidentEvent::read: incident_type: u16, message_len: u8, message
IncidentEvent_read(event_size, fde, input) ==
    LET b == Limited_read(event_size, input)
    IN  IF Len(b) < 3 \/ Len(b) < 3 + b[3] THEN Err("UnexpectedEof")
        ELSE IF Limit(event_size) > 3 + b[3] THEN Err("Other")
        ELSE OkLeft([variant       |-> "IncidentEvent",
                 incident_type |-> ReadLE(SubSeq(b, 1, 2)),
                 message       |-> SubSeq(b, 4, 3 + b[3])],
                Limit(event_size) - (3 + b[3]))

\* IncidentEvent::len
IncidentEvent_len(ev) == 3 + Min(Len(ev.message), U8_MAX)

\* IncidentEvent::write
IncidentEvent_write(ev) ==
    LET w1 == write_all(Limited_write(IncidentEvent_len(ev)),
                        WriteLE(ev.incident_type, 2) \o <<Min(Len(ev.message), U8_MAX)>>)
    IN  Written(write_limited(w1, U8_MAX, ev.message))

\* RowsQueryEvent::read: the length byte is ignored, query: the rest
RowsQueryEvent_read(event_size, fde, input) ==
    LET b == Limited_read(event_size, input)
    IN  IF Len(b) < 1 \/ EndsEarly(event_size, input) THEN Err("UnexpectedEof")
        ELSE OkLeft([variant |-> "RowsQueryEvent", query |-> SubSeq(b, 2, Len(b))],
                Limit(event_size) - (Len(b)))

\* RowsQueryEvent::len
RowsQueryEvent_len(ev) == 1 + Len(ev.query)

\* RowsQueryEvent::write
RowsQueryEvent_write(ev) ==
    Written(write_all(write_all(Limited_write(RowsQueryEvent_len(ev)),
                                <<Min(Len(ev.query), U8_MAX)>>),
                      ev.query))

\* a table id as u64 (eight base-256 digits) from its 4 or 6 bytes on the wire
TableId(bytes) == Zeros(8 - Len(bytes)) \o ReadWide(bytes)

\* write_u48 of a table id that fits 48 bits
write_u48(id) == WriteWide(SubSeq(id, 3, 8))

\* TableMapEvent::read
TableMapEvent_read(event_size, fde, input) ==
    LET b   == Limited_read(event_size, input)
        idw == IF get_event_type_header_length(fde, TABLE_MAP_EVENT) = 6 THEN 4 ELSE 6
        short == Err("UnexpectedEof")
    IN  IF Len(b) < idw + 3 THEN short
        ELSE LET dn == idw + 3 + b[idw + 3]          \* end of database_name
             IN  IF Len(b) < dn + 2 THEN short
        ELSE LET tn == dn + 2 + b[dn + 2]            \* end of table_name
                 cc == read_lenenc_int(b, tn + 1)    \* columns_count
             IN  IF Len(b) < tn + 1 \/ ~cc.ok THEN short
        ELSE LET ct == cc.next + cc.val              \* end of columns_type
                 ml == read_lenenc_int(b, ct)        \* metadata_len
             IN  IF Len(b) < ct \/ ~ml.ok THEN short
        ELSE LET cm == ml.next + ml.val              \* end of columns_metadata
                 nb == cm + (cc.val + 7) \div 8      \* end of null_bitmask
             IN  IF Len(b) < nb \/ EndsEarly(event_size, input) THEN short
        ELSE OkLeft([variant           |-> "TableMapEvent",
                 table_id          |-> TableId(SubSeq(b, 1, idw)),
                 flags             |-> ReadLE(SubSeq(b, idw + 1, idw + 2)),
                 database_name     |-> SubSeq(b, idw + 4, dn),
                 table_name        |-> SubSeq(b, dn + 3, tn),
                 columns_type      |-> SubSeq(b, cc.next + 1, ct),
                 columns_metadata  |-> SubSeq(b, ml.next + 1, cm),
                 null_bitmask      |-> BitVec_from_vec(SubSeq(b, cm + 1, nb), cc.val),
                 optional_metadata |-> SubSeq(b, nb + 1, Len(b))],
                Limit(event_size) - (Len(b)))

\* TableMapEvent::get_columns_count
get_columns_count(ev) == Len(ev.columns_type)

\* a mutant: the bitmap is counted as count / 8 bytes, rounded down
TableMapEvent_len_FloorBitmap(ev) ==
    6 + 2 + 1 + Min(Len(ev.database_name), U8_MAX) + 1
      + 1 + Min(Len(ev.table_name), U8_MAX) + 1
      + lenenc_int_len(Len(ev.columns_type)) + Len(ev.columns_type)
      + lenenc_int_len(Len(ev.columns_metadata)) + Len(ev.columns_metadata)
      + Len(ev.columns_type) \div 8
      + Len(ev.optional_metadata)

\* TableMapEvent::len
TableMapEvent_len(ev) ==
    6 + 2 + 1 + Min(Len(ev.database_name), U8_MAX) + 1
      + 1 + Min(Len(ev.table_name), U8_MAX) + 1
      + lenenc_int_len(get_columns_count(ev)) + get_columns_count(ev)
      + lenenc_int_len(Len(ev.columns_metadata)) + Len(ev.columns_metadata)
      + (get_columns_count(ev) + 8) \div 7
      + Len(ev.optional_metadata)

\* TableMapEvent::write
TableMapEvent_write(ev) ==
    LET w1 == write_all(Limited_write(TableMapEvent_len(ev)),
                        write_u48(ev.table_id) \o WriteLE(ev.flags, 2)
                        \o <<Min(Len(ev.database_name), U8_MAX)>>)
        w2 == write_limited(w1, U8_MAX, ev.database_name)
        w3 == write_all(w2, <<0, Min(Len(ev.table_name), U8_MAX)>>)
        w4 == write_limited(w3, U8_MAX, ev.table_name)
    IN  Written(write_all(w4, <<0>> \o write_lenenc_int(get_columns_count(ev))
                              \o ev.columns_type
                              \o write_lenenc_int(Len(ev.columns_metadata))
                              \o ev.columns_metadata
                              \o as_raw_slice(ev.null_bitmask)
                              \o ev.optional_metadata))

\* RowsEvent::read
RowsEvent_read(event_type, event_size, fde, input) ==
    LET b   == Limited_read(event_size, input)
        post_header_len == get_event_type_header_length(fde, event_type)
        is_delete_event == event_type \in {DELETE_ROWS_EVENT, DELETE_ROWS_EVENT_V1}
        is_update_event == event_type \in {UPDATE_ROWS_EVENT, UPDATE_ROWS_EVENT_V1,
                                           PARTIAL_UPDATE_ROWS_EVENT}
        idw == IF post_header_len = 6 THEN 4 ELSE 6
        has_extra == post_header_len = get_event_type_header_length(fde, WRITE_ROWS_EVENT)
        short == Err("UnexpectedEof")
    IN  IF Len(b) < idw + 2 + (IF has_extra THEN 2 ELSE 0) THEN short
        ELSE LET xl == IF has_extra
                       THEN SatSub(ReadLE(SubSeq(b, idw + 3, idw + 4)), 2) ELSE 0
                 xe == idw + 2 + (IF has_extra THEN 2 ELSE 0) + xl   \* end of extra_data
                 nc == read_lenenc_int(b, xe)                          \* num_columns
             IN  IF Len(b) < xe \/ ~nc.ok THEN short
        ELSE LET bitmap_len == (nc.val + 7) \div 8
                 i1 == nc.next + bitmap_len
                 i2 == IF is_update_event THEN i1 + bitmap_len ELSE i1
                 columns_image_1 == BitVec_from_vec(SubSeq(b, nc.next + 1, i1), nc.val)
                 columns_image_2 == BitVec_from_vec(SubSeq(b, i1 + 1, i2), nc.val)
             IN  IF Len(b) < i2 \/ EndsEarly(event_size, input) THEN short
        ELSE OkLeft([variant     |-> "RowsEvent",
                 type        |-> event_type,
                 table_id    |-> TableId(SubSeq(b, 1, idw)),
                 flags       |-> ReadLE(SubSeq(b, idw + 1, idw + 2)),
                 extra_data  |-> SubSeq(b, xe - xl + 1, xe),
                 num_columns |-> nc.val,
                 columns_before_image |->
                     IF is_update_event \/ is_delete_event
                     THEN Some(columns_image_1) ELSE None,
                 columns_after_image |->
                     IF is_update_event THEN Some(columns_image_2)
                     ELSE IF is_delete_event THEN None
                     ELSE Some(columns_image_1),
                 rows_data   |-> SubSeq(b, i2 + 1, Len(b))],
                Limit(event_size) - (Len(b)))

\* the raw bytes of an optional image (unwrap_or_default: none gives no bytes)
image_bytes(img) == IF img.some THEN as_raw_slice(img.v) ELSE <<>>

\* RowsEvent::len
RowsEvent_len(ev) ==
    6 + 2 + 2 + Min(Len(ev.extra_data), U16_MAX - 2) + lenenc_int_len(ev.num_columns)
      + (IF ev.columns_before_image.some THEN (ev.num_columns + 7) \div 8 ELSE 0)
      + (IF ev.columns_after_image.some THEN (ev.num_columns + 7) \div 8 ELSE 0)
      + Len(ev.rows_data)

\* RowsEvent::write: the images are written under a limit of bitmap_len for
\* each present image, and the write fails if they do not fill it
RowsEvent_write(ev) ==
    LET bitmap_len  == (ev.num_columns + 7) \div 8
        num_bitmaps == (IF ev.columns_before_image.some THEN 1 ELSE 0)
                       + (IF ev.columns_after_image.some THEN 1 ELSE 0)
        w1 == write_all(Limited_write(RowsEvent_len(ev)),
                        write_u48(ev.table_id) \o WriteLE(ev.flags, 2)
                        \o WriteLE(Min(Len(ev.extra_data) + 2, U16_MAX), 2))
        w2 == write_limited(w1, U16_MAX - 2, ev.extra_data)
        w3 == write_all(w2, write_lenenc_int(ev.num_columns))
        images == image_bytes(ev.columns_before_image)
                  \o image_bytes(ev.columns_after_image)
        w4 == write_limited(w3, bitmap_len * num_bitmaps, images)
    IN  IF w4.err = "-" /\ Len(images) < bitmap_len * num_bitmaps
        THEN Err("UnexpectedEof")
        ELSE Written(write_all(w4, ev.rows_data))

\* the event types whose EventData variant has no payload
UnitTypes == {0, 3, 7, 27}

\* the event types whose EventData variant is the raw body (a Vec<u8>)
OpaqueTypes == {1, 6, 8, 9, 10, 11, 12} \cup (20..25) \cup {28} \cup (33..39)

\* Event::read_event: the decoder of event type t over the body of ev
read_event(t, ev) ==
    LET size == BinlogEventHeader_LEN + Len(ev.data)
    IN  CASE t = QUERY_EVENT -> QueryEvent_read(size, ev.fde, ev.data)
          [] t = INTVAR_EVENT -> IntvarEvent_read(size, ev.fde, ev.data)
          [] t = RAND_EVENT -> RandEvent_read(size, ev.fde, ev.data)
          [] t = USER_VAR_EVENT -> UserVarEvent_read(size, ev.fde, ev.data)
          [] t = BEGIN_LOAD_QUERY_EVENT -> BeginLoadQueryEvent_read(size, ev.fde, ev.data)
          [] t = EXECUTE_LOAD_QUERY_EVENT ->
                 ExecuteLoadQueryEvent_read(size, ev.fde, ev.data)
          [] t = TABLE_MAP_EVENT -> TableMapEvent_read(size, ev.fde, ev.data)
          [] t = INCIDENT_EVENT -> IncidentEvent_read(size, ev.fde, ev.data)
          [] t = ROWS_QUERY_EVENT -> RowsQueryEvent_read(size, ev.fde, ev.data)
          [] t \in {WRITE_ROWS_EVENT, UPDATE_ROWS_EVENT, DELETE_ROWS_EVENT} ->
                 RowsEvent_read(t, size, ev.fde, ev.data)

\* the event types read_data hands to read_event (FDE, Rotate and Xid apart)
DecodedTypes ==
    {QUERY_EVENT, INTVAR_EVENT, RAND_EVENT, USER_VAR_EVENT, BEGIN_LOAD_QUERY_EVENT,
     EXECUTE_LOAD_QUERY_EVENT, TABLE_MAP_EVENT, INCIDENT_EVENT, ROWS_QUERY_EVENT,
     WRITE_ROWS_EVENT, UPDATE_ROWS_EVENT, DELETE_ROWS_EVENT}

\* Event::read_data: Ok(None) for an unknown event type, else the payload
Event_read_data(ev) ==
    LET t    == EventType_try_from(ev.header.event_type)
        size == BinlogEventHeader_LEN + Len(ev.data)
    IN  IF t.res = "err" THEN Ok(None)
        ELSE CASE t.val \in UnitTypes \cup {ENUM_END_EVENT} ->
                    Ok(Some([variant |-> "Unit", type |-> t.val]))
               [] t.val \in OpaqueTypes ->
                    Ok(Some([variant |-> "Bytes", type |-> t.val, bytes |-> ev.data]))
               [] t.val = FORMAT_DESCRIPTION_EVENT ->
                    LET d == read_event_fde(ev)
                    IN  IF d.res = "err" THEN d
                        ELSE Ok(Some([variant |-> "FormatDescriptionEvent",
                                      fde |-> [d.val EXCEPT !.footer = ev.footer]]))
               [] t.val = ROTATE_EVENT ->
                    LET d == RotateEvent_read(size, ev.fde, ev.data)
                    IN  IF d.res = "err" THEN d ELSE Ok(Some(d.val))
               [] t.val = XID_EVENT ->
                    LET d == XidEvent_read(size, ev.fde, ev.data)
                    IN  IF d.res = "err" THEN d ELSE Ok(Some(d.val))
               [] t.val \in DecodedTypes ->
                    LET d == read_event(t.val, ev)
                    IN  IF d.res = "err" THEN d ELSE Ok(Some(d.val))

\* EventData::write
EventData_write(p) ==
    CASE p.variant = "Unit" -> Ok(<<>>)
      [] p.variant = "Bytes" -> Ok(p.bytes)
      [] p.variant = "FormatDescriptionEvent" -> FormatDescriptionEvent_write(p.fde)
      [] p.variant = "RotateEvent" -> RotateEvent_write(p)
      [] p.variant = "XidEvent" -> XidEvent_write(p)
      [] p.variant = "QueryEvent" -> QueryEvent_write(p)
      [] p.variant = "IntvarEvent" -> IntvarEvent_write(p)
      [] p.variant = "RandEvent" -> RandEvent_write(p)
      [] p.variant = "UserVarEvent" -> UserVarEvent_write(p)
      [] p.variant = "BeginLoadQueryEvent" -> BeginLoadQueryEvent_write(p)
      [] p.variant = "ExecuteLoadQueryEvent" -> ExecuteLoadQueryEvent_write(p)
      [] p.variant = "TableMapEvent" -> TableMapEvent_write(p)
      [] p.variant = "IncidentEvent" -> IncidentEvent_write(p)
      [] p.variant = "RowsQueryEvent" -> RowsQueryEvent_write(p)
      [] p.variant = "RowsEvent" -> RowsEvent_write(p)

(***************************************************************************)
(* The inputs: what a source can hold.                                     *)
(***************************************************************************)
\* 19 header bytes as a server lays them out (timestamp 1253783036, server 1)
HeaderBytes(type, size, flags) ==
    <<252, 53, 187, 74, type, 1, 0, 0, 0,
      size % 256, (size \div 256) % 256, 0, 0, 98, 0, 0, 0,
      flags % 256, flags \div 256>>

\* server versions, ASCII: "5.5.62-log", "5.6.0", "5.6.1-log", "8.0.11", "10.1.2"
Ver_5_5_62 == <<53, 46, 53, 46, 54, 50, 45, 108, 111, 103>>
Ver_5_6_0 == <<53, 46, 54, 46, 48>>
Ver_5_6_1 == <<53, 46, 54, 46, 49, 45, 108, 111, 103>>
Ver_8_0_11 == <<56, 46, 48, 46, 49, 49>>
Ver_10_1_2 == <<49, 48, 46, 49, 46, 50>>

\* the fixed part and the post-header table of an FDE body
FdeBody(ver, table) ==
    <<4, 0>> \o ver \o Zeros(50 - Len(ver)) \o <<60, 53, 187, 74>> \o <<19>> \o table

\* an event without a trailer
Plain(type, flags, body) == HeaderBytes(type, 19 + Len(body), flags) \o body

\* an event followed by the checksum of header and body, its first byte
\* raised by `off` (0: the correct checksum)
Summed(type, flags, body, off) ==
    LET h == HeaderBytes(type, 19 + Len(body) + 4, flags)
        c == WriteLE(crc32(h \o body), 4)
    IN  h \o body \o <<(c[1] + off) % 256>> \o Tail(c)

\* an FDE followed by the algorithm byte and the checksum of header, body and byte
SummedFde(ver, table, alg) ==
    LET body == FdeBody(ver, table)
        h    == HeaderBytes(15, 19 + Len(body) + 5, 0)
    IN  h \o body \o <<alg>> \o WriteLE(crc32(h \o body \o <<alg>>), 4)

XidBody == <<5, 4, 3, 2, 1, 0, 0, 0>>
RotateBody == <<4, 0, 0, 0, 0, 0, 0, 0, 98, 105, 110, 46, 50>>

\* a Query body for a 14-byte post-header: the 13 fixed bytes (schema_len 2,
\* status_vars_len 5), one more post-header byte, status_vars, schema "db",
\* 0x00, the query "BE"
QueryWithExtra ==
    <<1, 0, 0, 0, 2, 0, 0, 0, 2, 0, 0, 5, 0>> \o <<9>> \o <<0, 1, 0, 0, 0>>
    \o <<100, 98>> \o <<0>> \o <<66, 69>>

\* complete FDE events
FdeEvents ==
    { Plain(15, 0, FdeBody(Ver_5_5_62, <<56, 13, 0, 8>>)),
      Plain(15, 1, FdeBody(Ver_5_6_0, <<56, 13, 0>>)),
      Plain(15, 0, FdeBody(Ver_5_6_1, <<56, 13, 0, 8, 1>>)),
      SummedFde(Ver_5_6_1, <<56, 13, 0, 8, 0>>, 1),
      SummedFde(Ver_8_0_11, <<56, 14, 0, 8, 0, 0>>, 0),
      SummedFde(Ver_10_1_2, <<56, 13>>, 2),
      Plain(15, 0, <<4, 0, 53, 46, 53, 46, 54, 50, 0, 0>>),
      Plain(15, 0, <<4, 0>> \o Ver_5_6_1 \o Zeros(43)) }

\* complete events of other types: known, opaque, undeclared and unknown
\* types; bodies of 0, 2, 3 and more bytes; with and without a checksum
OtherEvents ==
    { Plain(16, 0, XidBody), Summed(16, 0, XidBody, 0), Summed(16, 0, XidBody, 1),
      Plain(4, 32, RotateBody), Summed(4, 32, RotateBody, 0),
      Plain(33, 0, <<7, 8, 9>>), Summed(33, 0, <<7, 8, 9>>, 0),
      Plain(36, 0, <<1, 2, 3, 4, 5, 6>>), Summed(36, 0, <<1, 2, 3, 4, 5, 6>>, 0),
      Plain(39, 0, <<9, 9>>),
      Plain(240, 1024, <<1, 2, 3, 4, 5>>), Summed(240, 1024, <<1, 2, 3, 4, 5>>, 0),
      Plain(3, 0, <<>>), Summed(3, 0, <<>>, 0),
      Plain(40, 0, <<1>>),
      Plain(2, 0, QueryWithExtra) }

\* headers that declare an event_size below the header length
ShortSized == { HeaderBytes(3, 5, 0), HeaderBytes(16, 18, 0), HeaderBytes(15, 0, 0) }

CompleteEvents == FdeEvents \cup OtherEvents \cup ShortSized

\* an event cut by the end of the source: in its header, right after its
\* header, or one byte before its end
CutEvents ==
    { SubSeq(w, 1, k) : w \in { Plain(16, 0, XidBody), Summed(4, 32, RotateBody, 0),
                               SummedFde(Ver_5_6_1, <<56, 13, 0, 8, 0>>, 1) },
                        k \in {7, 19, 26} }

\* what a source of BinlogFile::new starts with
FilePrefixes ==
    { BinlogFileHeader_VALUE,
      <<255, 98, 105, 110>>, <<254, 99, 105, 110>>, <<254, 98, 104, 110>>,
      <<254, 98, 105, 111>>, <<0, 0, 0, 0>>, <<254, 98>>, <<>> }

NoEvent == [none |-> TRUE]
Idle == [of |-> "-"]

(***************************************************************************)
(* The reader over a binlog file.                                          *)
(***************************************************************************)
InitStream ==
    /\ phase = "init"
    /\ new_res = Idle
    /\ reader_fde = FormatDescriptionEvent_new(4)
    /\ wire = <<>>
    /\ eof = FALSE
    /\ rres = [res |-> "-"]
    /\ item = "-"
    /\ event = NoEvent
    /\ prev_fde = FormatDescriptionEvent_new(4)
    /\ consumed = 0
    /\ nwire = 0
    /\ nok = 0
    /\ nerr = 0
    /\ version = 4
    /\ all_framed = TRUE
    /\ last_fde_wire = <<>>
    /\ out = Idle
    /\ payload = Idle

HdrOff ==
    /\ hdr_in = <<>>
    /\ hdr_pc = "off"
    /\ hdr_val = NoEvent
    /\ hdr_out = <<>>

CodecOff ==
    /\ cd_in = Idle
    /\ cd_pc = "off"
    /\ cd_val = Idle
    /\ cd_out = Idle

Init == InitStream /\ HdrOff /\ CodecOff

\* BinlogFile::new(version, read): the reader is made, then the file header is read
BinlogFile_new ==
    /\ phase = "init"
    /\ \E v \in {3, 4}, prefix \in FilePrefixes :
         LET r == BinlogFileHeader_read(prefix)
         IN  /\ new_res' = r
             /\ version' = v
             /\ reader_fde' = FormatDescriptionEvent_new(v)
             /\ prev_fde' = FormatDescriptionEvent_new(v)
             /\ wire' = prefix
             /\ consumed' = Min(Len(prefix), BinlogFileHeader_LEN)
             /\ phase' = IF r.res = "ok" THEN "open" ELSE "invalid"
             /\ eof' = (Len(prefix) < BinlogFileHeader_LEN)
    /\ UNCHANGED <<rres, item, event, nwire, nok, nerr, all_framed, last_fde_wire,
                   out, payload>>
    /\ UNCHANGED <<hdrVars, codecVars>>

\* BinlogFile::next over a source that holds `chunk` and then, when the chunk
\* is no complete event, ends
NextOn(chunk) ==
    LET r == EventStreamReader_read(reader_fde, chunk)
    IN  /\ wire' = chunk
        /\ eof' = (chunk \notin CompleteEvents)
        /\ rres' = IF r.res = "err" THEN Err(r.kind) ELSE [res |-> r.res]
        /\ item' = BinlogFile_next_item(r)
        /\ event' = IF r.res = "ok" THEN r.val ELSE NoEvent
        /\ prev_fde' = reader_fde
        /\ reader_fde' = r.fde
        /\ consumed' = r.consumed
        /\ phase' = IF r.res = "panic" THEN "panicked" ELSE "open"
        /\ nwire' = IF chunk \in CompleteEvents THEN nwire + 1 ELSE nwire
        /\ nok' = IF r.res = "ok" THEN nok + 1 ELSE nok
        /\ nerr' = IF r.res = "err" /\ chunk \in CompleteEvents THEN nerr + 1 ELSE nerr
        /\ all_framed' = (all_framed /\ (Len(chunk) >= BinlogEventHeader_LEN =>
                             AsUsize(ReadWide(SubSeq(chunk, 10, 13))) >= BinlogEventHeader_LEN))
        /\ last_fde_wire' = IF r.res = "ok" /\ is_fde(r.val.header)
                            THEN chunk ELSE last_fde_wire
        /\ out' = Idle
        /\ payload' = Idle

\* The caller's Event::write and Event::read_data take &self of the event and
\* leave the reader and the source alone: a behaviour reads on from the state
\* in which the event was handed over.
BinlogFile_next ==
    /\ phase = "open"
    /\ nwire < MaxReads
    /\ out = Idle
    /\ payload = Idle
    /\ IF eof THEN NextOn(<<>>)
       ELSE \E chunk \in CompleteEvents \cup CutEvents \cup {<<>>} : NextOn(chunk)
    /\ UNCHANGED <<new_res, version>>
    /\ UNCHANGED <<hdrVars, codecVars>>

\* Event::write of the event just read
WriteEvent ==
    /\ phase = "open"
    /\ rres.res = "ok"
    /\ out = Idle
    /\ out' = [of |-> "event", r |-> Event_write(event)]
    /\ UNCHANGED <<phase, new_res, reader_fde, wire, eof, rres, item, event, prev_fde,
                   consumed, nwire, nok, nerr, version, all_framed, last_fde_wire, payload>>
    /\ UNCHANGED <<hdrVars, codecVars>>

\* Event::read_data of the event just read
ReadData ==
    /\ phase = "open"
    /\ rres.res = "ok"
    /\ payload = Idle
    /\ payload' = [of |-> "event", r |-> Event_read_data(event)]
    /\ UNCHANGED <<phase, new_res, reader_fde, wire, eof, rres, item, event, prev_fde,
                   consumed, nwire, nok, nerr, version, all_framed, last_fde_wire, out>>
    /\ UNCHANGED <<hdrVars, codecVars>>

\* EventData::write of the payload just decoded
WritePayload ==
    /\ phase = "open"
    /\ payload # Idle
    /\ payload.r.res = "ok"
    /\ payload.r.val.some
    /\ out.of # "payload"
    /\ out' = [of |-> "payload", r |-> EventData_write(payload.r.val.v)]
    /\ UNCHANGED <<phase, new_res, reader_fde, wire, eof, rres, item, event, prev_fde,
                   consumed, nwire, nok, nerr, version, all_framed, last_fde_wire, payload>>
    /\ UNCHANGED <<hdrVars, codecVars>>

\* BinlogFileHeader::write of the header just read
WriteFileHeader ==
    /\ phase = "open"
    /\ rres.res = "-"
    /\ out = Idle
    /\ out' = [of |-> "file_header", r |-> BinlogFileHeader_write]
    /\ UNCHANGED <<phase, new_res, reader_fde, wire, eof, rres, item, event, prev_fde,
                   consumed, nwire, nok, nerr, version, all_framed, last_fde_wire, payload>>
    /\ UNCHANGED <<hdrVars, codecVars>>

Next ==
    \/ BinlogFile_new
    \/ BinlogFile_next
    \/ WriteEvent
    \/ ReadData
    \/ WritePayload
    \/ WriteFileHeader

Spec == Init /\ [][Next]_vars

(***************************************************************************)
(* The header codec alone: BinlogEventHeader::read, then ::write, over     *)
(* 19-byte inputs of every event-type byte and of known and unknown flags. *)
(***************************************************************************)
\* timestamp, server_id, event_size and log_pos bytes of the inputs
WideFields ==
    { <<<<252, 53, 187, 74>>, <<1, 0, 0, 0>>, <<94, 0, 0, 0>>, <<98, 0, 0, 0>>>>,
      <<<<255, 255, 255, 255>>, <<0, 0, 0, 128>>, <<5, 0, 0, 0>>, <<255, 255, 255, 255>>>>,
      <<<<0, 0, 0, 0>>, <<255, 255, 255, 255>>, <<255, 255, 255, 255>>, <<0, 1, 2, 3>>>> }

\* low and high byte of the flags: no flag, known flags, unknown bits, all bits
FlagBytes == {0, 1, 4, 255}

HeaderInputs ==
    { w[1] \o <<t>> \o w[2] \o w[3] \o w[4] \o <<lo, hi>> :
        w \in WideFields, t \in 0..255, lo \in FlagBytes, hi \in FlagBytes }

\* inputs that end inside the header
ShortHeaderInputs == { SubSeq(HeaderBytes(2, 94, 0), 1, k) : k \in {0, 4, 5, 18} }

InitHdr ==
    /\ InitStream
    /\ hdr_in \in HeaderInputs \cup ShortHeaderInputs
    /\ hdr_pc = "in"
    /\ hdr_val = NoEvent
    /\ hdr_out = <<>>
    /\ CodecOff

\* BinlogEventHeader::read(_, _, hdr_in)
HdrRead ==
    /\ hdr_pc = "in"
    /\ hdr_val' = BinlogEventHeader_read(hdr_in)
    /\ hdr_pc' = "read"
    /\ UNCHANGED <<hdr_in, hdr_out>>
    /\ UNCHANGED <<streamVars, codecVars>>

\* BinlogEventHeader::write of the header just read
HdrWrite ==
    /\ hdr_pc = "read"
    /\ hdr_val.res = "ok"
    /\ hdr_out' = BinlogEventHeader_write(hdr_val.val)
    /\ hdr_pc' = "written"
    /\ UNCHANGED <<hdr_in, hdr_val>>
    /\ UNCHANGED <<streamVars, codecVars>>

NextHdr ==
    \/ HdrRead
    \/ HdrWrite

SpecHdr == InitHdr /\ [][NextHdr]_vars

(***************************************************************************)
(* The payload codecs on their own: a body of one event type is decoded by *)
(* Event::read_data under an FDE read from an FDE body, and the decoded    *)
(* payload is written back by EventData::write.                            *)
(***************************************************************************)
\* the post-header table a server writes (event types 1 ..= 35)
StdTable == SubSeq(DefaultHeaderLengths, 1, 35)

\* the tables of the FDEs: none, the standard one, and tables that declare
\* a longer QUERY post-header, post-headers for INTVAR and XID, a 6-byte
\* TABLE_MAP post-header, and 6-byte post-headers of the rows events
PayloadTables ==
    { <<>>,
      StdTable,
      [StdTable EXCEPT ![QUERY_EVENT] = 14],
      [StdTable EXCEPT ![INTVAR_EVENT] = 1, ![XID_EVENT] = 2],
      [StdTable EXCEPT ![TABLE_MAP_EVENT] = 6, ![UPDATE_ROWS_EVENT] = 6],
      [StdTable EXCEPT ![WRITE_ROWS_EVENT] = 6, ![UPDATE_ROWS_EVENT] = 6,
                       ![DELETE_ROWS_EVENT] = 6] }

\* the FDE a reader holds after an FDE event with this table
FdeOf(table) ==
    LET body == FdeBody(Ver_5_6_1, table)
    IN  FormatDescriptionEvent_read(BinlogEventHeader_LEN + Len(body), body).val

\* the fields of a Query body: post-header extra bytes, status_vars, schema,
\* the byte after the schema, the query
QueryBody(extra, sv, schema, nul, query) ==
    <<1, 0, 0, 0, 2, 0, 0, 0, Len(schema), 0, 0, Len(sv), 0>>
    \o extra \o sv \o schema \o <<nul>> \o query

\* an ExecuteLoadQuery body
ExecuteLoadQueryBody(sv, schema, nul, query) ==
    <<1, 0, 0, 0, 2, 0, 0, 0, Len(schema), 0, 0, Len(sv), 0,
      3, 0, 0, 0, 10, 0, 0, 0, 20, 0, 0, 0, 1>>
    \o sv \o schema \o <<nul>> \o query

\* a UserVar body: name "a", the is_null byte, and what follows it
UserVarBody(is_null, rest) == <<1, 0, 0, 0, 97, is_null>> \o rest

\* type 0, charset 33, value "xy"
UserVarValue == <<0, 33, 0, 0, 0, 2, 0, 0, 0, 120, 121>>

\* a TableMap body: database "d", table "t", columns VARCHAR, BLOB, VARCHAR
TableMapBody(id, count, mask, optional) ==
    id \o <<1, 0, 1, 100, 0, 1, 116, 0>> \o count \o <<15, 252, 15>>
    \o <<5, 10, 11, 12, 13, 14>> \o mask \o optional

\* a rows body: the post-header, three columns, the images, one row
RowsBody(id, extra, images) ==
    id \o <<1, 0>> \o extra \o <<3>> \o images \o <<248, 1, 2, 3>>

\* the bodies by event type: well-formed ones, ones that use a feature of
\* the format (a longer post-header, a missing flags byte, padding bits,
\* a longer length form), and ones that are too short or too long
PayloadBodies ==
    { <<QUERY_EVENT, QueryBody(<<>>, <<0, 1, 0, 0, 0>>, <<100, 98>>, 0, <<66, 69>>)>>,
      <<QUERY_EVENT, QueryBody(<<9>>, <<0, 1, 0, 0, 0>>, <<100, 98>>, 0, <<66, 69>>)>>,
      <<QUERY_EVENT, QueryBody(<<>>, <<>>, <<100>>, 7, <<66>>)>>,
      <<QUERY_EVENT, QueryBody(<<>>, <<>>, <<>>, 0, <<>>)>>,
      <<QUERY_EVENT, <<1, 0, 0, 0, 2, 0, 0, 0, 2, 0, 0, 0>>>>,
      <<INTVAR_EVENT, <<2, 5, 0, 0, 0, 0, 0, 0, 128>>>>,
      <<INTVAR_EVENT, <<9, 2, 5, 0, 0, 0, 0, 0, 0, 0>>>>,
      <<INTVAR_EVENT, <<2, 5, 0>>>>,
      <<RAND_EVENT, <<1, 2, 3, 4, 5, 6, 7, 8, 9, 10, 11, 12, 13, 14, 15, 200>>>>,
      <<RAND_EVENT, <<1, 2, 3, 4, 5, 6, 7, 8, 9, 10, 11, 12, 13, 14, 15, 16, 17>>>>,
      <<XID_EVENT, XidBody>>,
      <<XID_EVENT, <<7, 7>> \o XidBody>>,
      <<ROTATE_EVENT, RotateBody>>,
      <<USER_VAR_EVENT, UserVarBody(1, <<>>)>>,
      <<USER_VAR_EVENT, UserVarBody(2, <<>>)>>,
      <<USER_VAR_EVENT, UserVarBody(1, <<5, 6>>)>>,
      <<USER_VAR_EVENT, UserVarBody(0, UserVarValue \o <<1>>)>>,
      <<USER_VAR_EVENT, UserVarBody(0, UserVarValue)>>,
      <<USER_VAR_EVENT, UserVarBody(0, UserVarValue \o <<1, 9>>)>>,
      <<USER_VAR_EVENT, UserVarBody(0, <<0, 33, 0>>)>>,
      <<BEGIN_LOAD_QUERY_EVENT, <<3, 0, 0, 0, 1, 2, 3>>>>,
      <<BEGIN_LOAD_QUERY_EVENT, <<3, 0, 0>>>>,
      <<EXECUTE_LOAD_QUERY_EVENT, ExecuteLoadQueryBody(<<4, 1>>, <<100>>, 0, <<76, 68>>)>>,
      <<EXECUTE_LOAD_QUERY_EVENT, ExecuteLoadQueryBody(<<>>, <<>>, 1, <<>>)>>,
      <<INCIDENT_EVENT, <<1, 0, 2, 104, 105>>>>,
      <<INCIDENT_EVENT, <<1, 0, 2, 104, 105, 33>>>>,
      <<INCIDENT_EVENT, <<1, 0, 2, 104>>>>,
      <<ROWS_QUERY_EVENT, <<3, 97, 98, 99>>>>,
      <<ROWS_QUERY_EVENT, <<200, 97>>>>,
      <<TABLE_MAP_EVENT, TableMapBody(<<42, 0, 0, 0, 0, 0>>, <<3>>, <<5>>, <<>>)>>,
      <<TABLE_MAP_EVENT, TableMapBody(<<42, 0, 0, 0, 0, 0>>, <<3>>, <<253>>, <<1, 1, 2>>)>>,
      <<TABLE_MAP_EVENT, TableMapBody(<<42, 0, 0, 0>>, <<3>>, <<5>>, <<>>)>>,
      <<TABLE_MAP_EVENT, TableMapBody(<<42, 0, 0, 0, 0, 0>>, <<252, 3, 0>>, <<5>>, <<>>)>>,
      <<WRITE_ROWS_EVENT, RowsBody(<<42, 0, 0, 0, 0, 0>>, <<2, 0>>, <<7>>)>>,
      <<WRITE_ROWS_EVENT, RowsBody(<<42, 0, 0, 0, 0, 0>>, <<4, 0, 8, 9>>, <<255>>)>>,
      <<WRITE_ROWS_EVENT, RowsBody(<<42, 0, 0, 0, 0, 0>>, <<0, 0>>, <<7>>)>>,
      <<WRITE_ROWS_EVENT, RowsBody(<<42, 0, 0, 0>>, <<2, 0>>, <<7>>)>>,
      <<UPDATE_ROWS_EVENT, RowsBody(<<42, 0, 0, 0, 0, 0>>, <<2, 0>>, <<7, 5>>)>>,
      <<UPDATE_ROWS_EVENT, RowsBody(<<42, 0, 0, 0>>, <<>>, <<255, 253>>)>>,
      <<UPDATE_ROWS_EVENT, <<42, 0, 0, 0, 0, 0, 1, 0, 2, 0, 9, 255, 1, 255, 255, 0, 0, 7>>>>,
      <<DELETE_ROWS_EVENT, RowsBody(<<42, 0, 0, 0, 0, 0>>, <<2, 0>>, <<3>>)>>,
      <<DELETE_ROWS_EVENT, <<42, 0, 0, 0, 0, 0, 1, 0, 2, 0, 3>>>>,
      <<FORMAT_DESCRIPTION_EVENT, FdeBody(Ver_5_6_1, <<56, 13, 0, 8>>)>>,
      <<PREVIOUS_GTIDS_EVENT, <<7, 8, 9>>>> }

\* the event Event::read hands to read_data: type, body and the active FDE
BodyEvent(in) ==
    [header   |-> BinlogEventHeader_read(
                      HeaderBytes(in.type, BinlogEventHeader_LEN + Len(in.body), 0)).val,
     fde      |-> FdeOf(in.table),
     data     |-> in.body,
     footer   |-> BinlogEventFooter_default,
     checksum |-> Zeros(BINLOG_CHECKSUM_LEN)]

InitPayload ==
    /\ InitStream
    /\ HdrOff
    /\ cd_in \in { [type |-> tb[1], body |-> tb[2], table |-> t] :
                       tb \in PayloadBodies, t \in PayloadTables }
    /\ cd_pc = "in"
    /\ cd_val = Idle
    /\ cd_out = Idle

\* Event::read_data of the event
PayloadRead ==
    /\ cd_pc = "in"
    /\ cd_val' = Event_read_data(BodyEvent(cd_in))
    /\ cd_pc' = "read"
    /\ UNCHANGED <<cd_in, cd_out>>
    /\ UNCHANGED <<streamVars, hdrVars>>

\* EventData::write of the payload just decoded
PayloadWrite ==
    /\ cd_pc = "read"
    /\ cd_val.res = "ok"
    /\ cd_val.val.some
    /\ cd_out' = EventData_write(cd_val.val.v)
    /\ cd_pc' = "written"
    /\ UNCHANGED <<cd_in, cd_val>>
    /\ UNCHANGED <<streamVars, hdrVars>>

NextPayload ==
    \/ PayloadRead
    \/ PayloadWrite

SpecPayload == InitPayload /\ [][NextPayload]_vars

\* RotateEvent::len
RotateEvent_len(ev) == 8 + Len(ev.name)

\* RandEvent::len
RandEvent_len(ev) == 8

\* XidEvent::len
XidEvent_len(ev) == 8

\* IntvarEvent::len
IntvarEvent_len(ev) == 9

(***************************************************************************)
(* Writing payload values whose fields are as long as, or longer than,     *)
(* their length prefixes can express.                                      *)
(***************************************************************************)
\* BinlogStruct::len of a payload with length-prefixed fields
payload_len(p) ==
    CASE p.variant = "QueryEvent" -> QueryEvent_len(p)
      [] p.variant = "ExecuteLoadQueryEvent" -> ExecuteLoadQueryEvent_len(p)
      [] p.variant = "IncidentEvent" -> IncidentEvent_len(p)
      [] p.variant = "TableMapEvent" -> TableMapEvent_len(p)
      [] p.variant = "RowsQueryEvent" -> RowsQueryEvent_len(p)
      [] p.variant = "RowsEvent" -> RowsEvent_len(p)
      [] p.variant = "RotateEvent" -> RotateEvent_len(p)
      [] p.variant = "IntvarEvent" -> IntvarEvent_len(p)
      [] p.variant = "RandEvent" -> RandEvent_len(p)
      [] p.variant = "XidEvent" -> XidEvent_len(p)
      [] p.variant = "UserVarEvent" -> UserVarEvent_len(p)
      [] p.variant = "BeginLoadQueryEvent" -> BeginLoadQueryEvent_len(p)
      [] p.variant = "FormatDescriptionEvent" -> FormatDescriptionEvent_len(p.fde)

\* n bytes b
Fill(n, b) == [i \in 1..n |-> b]

\* the lengths tried for a field with a one-byte prefix, for status_vars and
\* for the extra data of a rows event (whose prefix counts itself)
NameLens == {0, 2, U8_MAX, U8_MAX + 1, U8_MAX + 45}
StatusVarsLens == {0, 5, U16_MAX - 13, U16_MAX - 12, U16_MAX, U16_MAX + 1}
ExtraDataLens == {0, 3, U16_MAX - 2, U16_MAX - 1, U16_MAX + 1}

QueryValue(sv, sc) ==
    [variant        |-> "QueryEvent",
     thread_id      |-> <<0, 0, 0, 1>>,
     execution_time |-> <<0, 0, 0, 2>>,
     error_code     |-> 0,
     status_vars    |-> Fill(sv, 0),
     schema         |-> Fill(sc, 100),
     query          |-> <<66, 69>>]

ExecuteLoadQueryValue(sv, sc) ==
    [variant        |-> "ExecuteLoadQueryEvent",
     thread_id      |-> <<0, 0, 0, 1>>,
     execution_time |-> <<0, 0, 0, 2>>,
     error_code     |-> 0,
     status_vars    |-> Fill(sv, 0),
     schema         |-> Fill(sc, 100),
     file_id        |-> <<0, 0, 0, 7>>,
     start_pos      |-> <<0, 0, 0, 4>>,
     end_pos        |-> <<0, 0, 0, 9>>,
     dup_handling   |-> 1,
     query          |-> <<66, 69>>]

IncidentValue(m) ==
    [variant |-> "IncidentEvent", incident_type |-> 1, message |-> Fill(m, 33)]

TableMapValue(db, tn) ==
    [variant           |-> "TableMapEvent",
     table_id          |-> <<0, 0, 0, 0, 0, 0, 0, 42>>,
     flags             |-> 1,
     database_name     |-> Fill(db, 100),
     table_name        |-> Fill(tn, 116),
     columns_type      |-> <<3, 15>>,
     columns_metadata  |-> <<10, 0>>,
     null_bitmask      |-> BitVec_from_vec(<<2>>, 2),
     optional_metadata |-> <<>>]

RowsQueryValue(q) == [variant |-> "RowsQueryEvent", query |-> Fill(q, 66)]

RowsValue(x) ==
    [variant     |-> "RowsEvent",
     type        |-> WRITE_ROWS_EVENT,
     table_id    |-> <<0, 0, 0, 0, 0, 0, 0, 42>>,
     flags       |-> 1,
     extra_data  |-> Fill(x, 5),
     num_columns |-> 2,
     columns_before_image |-> None,
     columns_after_image  |-> Some(BitVec_from_vec(<<3>>, 2)),
     rows_data   |-> <<252, 1, 0, 0, 0>>]

\* the values written: every variant with a length-prefixed field, every
\* field at the lengths above
InitWrite ==
    /\ InitStream
    /\ HdrOff
    /\ cd_in \in
          { QueryValue(sv, sc) : sv \in StatusVarsLens, sc \in NameLens }
          \cup { ExecuteLoadQueryValue(sv, sc) : sv \in StatusVarsLens, sc \in NameLens }
          \cup { IncidentValue(m) : m \in NameLens }
          \cup { TableMapValue(db, tn) : db \in NameLens, tn \in NameLens }
          \cup { RowsQueryValue(q) : q \in NameLens }
          \cup { RowsValue(x) : x \in ExtraDataLens }
    /\ cd_pc = "in"
    /\ cd_val = Idle
    /\ cd_out = Idle

\* BinlogStruct::len of the value
MeasureValue ==
    /\ cd_pc = "in"
    /\ cd_val' = payload_len(cd_in)
    /\ cd_pc' = "measured"
    /\ UNCHANGED <<cd_in, cd_out>>
    /\ UNCHANGED <<streamVars, hdrVars>>

\* EventData::write of the value
WriteValue ==
    /\ cd_pc = "measured"
    /\ cd_out' = EventData_write(cd_in)
    /\ cd_pc' = "written"
    /\ UNCHANGED <<cd_in, cd_val>>
    /\ UNCHANGED <<streamVars, hdrVars>>

NextWrite ==
    \/ MeasureValue
    \/ WriteValue

SpecWrite == InitWrite /\ [][NextWrite]_vars

(***************************************************************************)
(* Column metadata of a table map event.                                   *)
(***************************************************************************)
\* the column types of crate::constants::ColumnType: DECIMAL (0) ..= TIME2 (19),
\* JSON (245) ..= GEOMETRY (255)
KnownColumnTypes == (0..19) \cup (245..255)

MYSQL_TYPE_DECIMAL == 0
MYSQL_TYPE_LONG == 3
MYSQL_TYPE_FLOAT == 4
MYSQL_TYPE_DOUBLE == 5
MYSQL_TYPE_VARCHAR == 15
MYSQL_TYPE_NEWDECIMAL == 246
MYSQL_TYPE_ENUM == 247
MYSQL_TYPE_SET == 248
MYSQL_TYPE_BLOB == 252
MYSQL_TYPE_VAR_STRING == 253
MYSQL_TYPE_STRING == 254

\* ColumnType::get_metadata_len
get_metadata_len(ty) ==
    CASE ty \in {MYSQL_TYPE_STRING, MYSQL_TYPE_VAR_STRING, MYSQL_TYPE_VARCHAR} -> 2
      [] ty = MYSQL_TYPE_BLOB -> 1
      [] ty \in {MYSQL_TYPE_DECIMAL, MYSQL_TYPE_NEWDECIMAL} -> 2
      [] ty \in {MYSQL_TYPE_DOUBLE, MYSQL_TYPE_FLOAT} -> 1
      [] ty \in {MYSQL_TYPE_SET, MYSQL_TYPE_ENUM} -> 2
      [] OTHER -> 0

\* RawSeq::get(idx)?.ok()?: the column type at idx (0-based), if there is one
\* and it is a known type
column_type_at(ev, idx) ==
    IF idx >= Len(ev.columns_type) THEN None
    ELSE IF ev.columns_type[idx + 1] \notin KnownColumnTypes THEN None
    ELSE Some(ev.columns_type[idx + 1])

\* the loop `for _ in 0..col_idx` of get_column_metadata, n rounds to go:
\* every round looks up the type at col_idx
RECURSIVE metadata_offset(_, _, _)
metadata_offset(ev, col_idx, n) ==
    IF n = 0 THEN Some(0)
    ELSE LET ty   == column_type_at(ev, col_idx)
             rest == metadata_offset(ev, col_idx, n - 1)
         IN  IF ~ty.some \/ ~rest.some THEN None
             ELSE Some(rest.v + get_metadata_len(ty.v))

\* TableMapEvent::get_column_metadata
get_column_metadata(ev, col_idx) ==
    LET col_type == column_type_at(ev, col_idx)
        offset   == metadata_offset(ev, col_idx, col_idx)
    IN  IF ~col_type.some \/ ~offset.some THEN None
        ELSE IF offset.v + get_metadata_len(col_type.v) > Len(ev.columns_metadata) THEN None
        ELSE Some(SubSeq(ev.columns_metadata, offset.v + 1,
                         offset.v + get_metadata_len(col_type.v)))

\* the table maps and column indexes of the look-ups: up to MaxColumns
\* columns of a VARCHAR, a BLOB, a LONG or an unknown type
MaxColumns == 3

RECURSIVE SeqsUpTo(_, _)
SeqsUpTo(S, n) ==
    IF n = 0 THEN {<<>>}
    ELSE LET shorter == SeqsUpTo(S, n - 1)
         IN  shorter \cup { Append(q, x) : q \in shorter, x \in S }

MetadataInputs ==
    { [columns_type |-> ct, columns_metadata |-> cm, col_idx |-> i] :
        ct \in SeqsUpTo({MYSQL_TYPE_VARCHAR, MYSQL_TYPE_BLOB, MYSQL_TYPE_LONG, 100},
                        MaxColumns),
        cm \in {<<10, 11, 12, 13, 14>>, <<10, 11, 12>>},
        i \in 0..MaxColumns }

InitMeta ==
    /\ InitStream
    /\ HdrOff
    /\ cd_in \in MetadataInputs
    /\ cd_pc = "in"
    /\ cd_val = Idle
    /\ cd_out = Idle

\* get_column_metadata(col_idx) on the table map
GetColumnMetadata ==
    /\ cd_pc = "in"
    /\ cd_val' = get_column_metadata(cd_in, cd_in.col_idx)
    /\ cd_pc' = "done"
    /\ UNCHANGED <<cd_in, cd_out>>
    /\ UNCHANGED <<streamVars, hdrVars>>

NextMeta == GetColumnMetadata

SpecMeta == InitMeta /\ [][NextMeta]_vars

(***************************************************************************)
(* The status variables of a query event.                                  *)
(***************************************************************************)
StatusVarKey_Catalog == 2
StatusVarKey_TimeZone == 5
StatusVarKey_CatalogNz == 6
StatusVarKey_Invoker == 11
StatusVarKey_UpdatedDbNames == 12
StatusVarKey_Last == 20

\* StatusVarKey::try_from
StatusVarKey_try_from(value) == IF value <= StatusVarKey_Last THEN Ok(value) ELSE Err(value)

\* the keys whose arm is get_fixed!(len), with len: Flags2 4, SqlMode 8,
\* AutoIncrement 4, Charset 6, LcTimeNames 2, CharsetDatabase 2,
\* TableMapForUpdate 8, MasterDataWritten 4, Microseconds 3, CommitTs 0,
\* CommitTs2 0, ExplicitDefaultsForTimestamp 1, DdlLoggedWithXid 8,
\* DefaultCollationForUtf8mb4 2, SqlRequirePrimaryKey 1, DefaultTableEncryption 1
FixedValueLen ==
    [k \in {0, 1, 3, 4, 7, 8, 9, 10, 13, 14, 15, 16, 17, 18, 19, 20} |->
        CASE k \in {0, 3, 10} -> 4
          [] k \in {1, 9, 17} -> 8
          [] k = 4 -> 6
          [] k \in {7, 8, 18} -> 2
          [] k = 13 -> 3
          [] k \in {14, 15} -> 0
          [] k \in {16, 19, 20} -> 1]

\* a mutant: every name is taken to be empty
names_total_NoScan(sv, pos, total, count) == Some(total + count)

\* the scan of UpdatedDbNames: `count` names are still to be ended by 0x00,
\* total bytes are taken so far; None when a get(..)? runs off the block
RECURSIVE names_total(_, _, _, _)
names_total(sv, pos, total, count) ==
    IF count = 0 THEN Some(total)
    ELSE IF pos + total >= Len(sv) THEN None
    ELSE IF sv[pos + total + 1] # 0 THEN names_total(sv, pos, total + 1, count)
    ELSE names_total(sv, pos, total + 1, count - 1)

\* StatusVarsIterator::next on the block sv at self.pos = pos0:
\* [item: Option<StatusVar>, pos: self.pos afterwards]
StatusVarsIterator_next(sv, pos0) ==
    LET nothing(p) == [item |-> None, pos |-> p]
    IN  IF pos0 >= Len(sv) THEN nothing(pos0)
        ELSE IF StatusVarKey_try_from(sv[pos0 + 1]).res = "err" THEN nothing(pos0)
        ELSE
        LET key == sv[pos0 + 1]
            pos == pos0 + 1
            get_fixed(len) ==
                [item |-> IF pos + len > Len(sv) THEN None
                          ELSE Some([key |-> key, value |-> SubSeq(sv, pos + 1, pos + len)]),
                 pos  |-> pos + len]
            get_var(suffix_len) ==
                IF pos >= Len(sv) THEN nothing(pos)
                ELSE get_fixed(1 + sv[pos + 1] + suffix_len)
        IN  CASE key = StatusVarKey_Catalog -> get_var(1)
              [] key \in {StatusVarKey_TimeZone, StatusVarKey_CatalogNz} -> get_var(0)
              [] key = StatusVarKey_Invoker ->
                    IF pos >= Len(sv) THEN nothing(pos)
                    ELSE LET user_len == sv[pos + 1]
                         IN  IF pos + 1 + user_len >= Len(sv) THEN nothing(pos)
                             ELSE get_fixed(1 + user_len + 1 + sv[pos + 1 + user_len + 1])
              [] key = StatusVarKey_UpdatedDbNames ->
                    IF pos >= Len(sv) THEN nothing(pos)
                    ELSE LET total == names_total(sv, pos, 1, sv[pos + 1])
                         IN  IF total.some THEN get_fixed(total.v) ELSE nothing(pos)
              [] OTHER -> get_fixed(FixedValueLen[key])

\* StatusVarsIterator::new
StatusVarsIterator_new(sv) == [pos |-> 0, status_vars |-> sv]

\* one variable of each key as a server writes it, and pieces that do not
\* parse: unknown keys, values cut short, a name without its 0x00
StatusVarPieces ==
    { <<0, 1, 2, 3, 4>>, <<1, 1, 2, 3, 4, 5, 6, 7, 8>>, <<2, 3, 115, 116, 100, 0>>,
      <<3, 1, 0, 1, 0>>, <<4, 33, 0, 33, 0, 8, 0>>, <<5, 2, 85, 84>>, <<6, 1, 99>>,
      <<7, 9, 0>>, <<8, 33, 0>>, <<9, 1, 0, 0, 0, 0, 0, 0, 0>>, <<10, 7, 0, 0, 0>>,
      <<11, 1, 117, 2, 104, 104>>, <<11, 0, 0>>, <<12, 2, 97, 0, 98, 99, 0>>, <<12, 0>>,
      <<13, 1, 2, 3>>, <<14>>, <<15>>, <<16, 1>>, <<17, 1, 2, 3, 4, 5, 6, 7, 8>>,
      <<18, 45, 0>>, <<19, 1>>, <<20, 1>>,
      <<21>>, <<200, 1>>, <<0, 1, 2>>, <<2, 9, 115>>, <<5>>, <<11, 5, 117>>,
      <<11, 1, 117>>, <<12, 1, 97>>, <<12>>, <<13, 1, 2>> }

\* pieces one block is made of at most
MaxPieces == 2

RECURSIVE Flatten(_)
Flatten(q) == IF q = <<>> THEN <<>> ELSE Head(q) \o Flatten(Tail(q))

StatusVarBlocks == { Flatten(q) : q \in SeqsUpTo(StatusVarPieces, MaxPieces) }

InitStatusVars ==
    /\ InitStream
    /\ HdrOff
    /\ cd_in \in StatusVarBlocks
    /\ cd_pc = "in"
    /\ cd_val = StatusVarsIterator_new(cd_in)
    /\ cd_out = <<>>

\* one step of `for var in status_vars.iter()`: next() is called with the
\* iterator's position; an item is handed to the loop body (cd_out lists the
\* items with the position their key was read at), None ends the loop
StatusVars_next ==
    /\ cd_pc = "in"
    /\ LET r == StatusVarsIterator_next(cd_in, cd_val.pos)
       IN  /\ cd_val' = [cd_val EXCEPT !.pos = r.pos]
           /\ cd_out' = IF r.item.some
                        THEN Append(cd_out, [at    |-> cd_val.pos,
                                             key   |-> r.item.v.key,
                                             value |-> r.item.v.value])
                        ELSE cd_out
           /\ cd_pc' = IF r.item.some THEN "in" ELSE "done"
    /\ UNCHANGED cd_in
    /\ UNCHANGED <<streamVars, hdrVars>>

NextStatusVars == StatusVars_next

SpecStatusVars == InitStatusVars /\ [][NextStatusVars]_vars

(***************************************************************************)
(* Properties of the reader over a binlog file.                            *)
(***************************************************************************)
\* a read has returned an event
Returned == rres.res = "ok"

\* event_size of the event just returned
ReturnedSize == AsUsize(event.header.event_size)

\* the on-wire bytes of the event just returned: source[ev_pos .. ev_pos + event_size]
OnWireEvent == SubSeq(wire, 1, ReturnedSize)

\* the on-wire body of the event just returned: source[ev_pos + 19 .. ev_pos + event_size]
OnWireBody == SubSeq(wire, BinlogEventHeader_LEN + 1, ReturnedSize)

\* the last four bytes of a sequence
LastFour(b) == SubSeq(b, Len(b) - 3, Len(b))

\* the returned event has no checksum on the wire, or the correct one
OnWireChecksumCorrect ==
    (event.footer.checksum_alg.some
        /\ (is_fde(event.header) \/ event.footer.checksum_alg.v # 0)
        /\ ReturnedSize >= BinlogEventHeader_LEN + 4)
    => LastFour(OnWireEvent) = WriteLE(crc32(SubSeq(wire, 1, ReturnedSize - 4)), 4)

\* C1: for every event the reader returned from a stream whose on-wire
\* checksum (when it has one) is the correct CRC32, Event::write emits exactly
\* the on-wire bytes source[ev_pos .. ev_pos + event_size] of that event.
C1_EventRoundTrip ==
    (out.of = "event" /\ OnWireChecksumCorrect) => out.r = Ok(OnWireEvent)

\* the server version field of the most recently returned FDE, as wire bytes
LastFdeVersion == SubSeq(last_fde_wire, 22, 71)

\* the decoded content of an on-wire FDE event and its footer, read off the bytes
DecodedFde(w) ==
    LET body   == SubSeq(w, 20, Len(w))
        footer == BinlogEventFooter_read(body)
        table  == SubSeq(body, 58, Len(body) - (IF footer.checksum_alg.some THEN 5 ELSE 0))
    IN  [binlog_version            |-> body[1] + 256 * body[2],
         server_version            |-> SubSeq(body, 3, 52),
         create_timestamp          |-> <<body[56], body[55], body[54], body[53]>>,
         event_type_header_lengths |-> table,
         footer                    |-> footer]

\* C2: the active FDE of the reader is the default FDE of the requested
\* version while no FDE event has been read, and afterwards the decoded content
\* of the most recently read FDE event with that event's footer; a read that
\* returns a non-FDE event leaves it unchanged, and that event carries it in
\* event.fde and its footer in event.footer.
C2_ActiveFde ==
    /\ last_fde_wire = <<>> => reader_fde = FormatDescriptionEvent_new(version)
    /\ last_fde_wire # <<>> => reader_fde = DecodedFde(last_fde_wire)
    /\ (Returned /\ ~is_fde(event.header)) =>
          /\ reader_fde = prev_fde
          /\ event.fde = reader_fde
          /\ event.footer = reader_fde.footer

\* C2 witness: a non-FDE event returned under a second FDE, one that declares
\* CRC32 and its own post-header table
C2_Witness ==
    /\ Returned
    /\ nok = 3
    /\ ~is_fde(event.header)
    /\ last_fde_wire = SummedFde(Ver_5_6_1, <<56, 13, 0, 8, 0>>, 1)
    /\ event.fde.event_type_header_lengths = <<56, 13, 0, 8, 0>>
    /\ event.footer = [checksum_alg |-> Some(BINLOG_CHECKSUM_ALG_CRC32)]

\* what Event::read took off the end of the body
Removed == Len(OnWireBody) - Len(event.data)

\* the read kept a prefix of the body, took `k` bytes off and returned the
\* last four of the body as the checksum
Stripped(k) ==
    /\ Removed = k
    /\ event.data = SubSeq(OnWireBody, 1, Len(OnWireBody) - k)
    /\ event.checksum = LastFour(OnWireBody)

\* C3 as stated, for events whose footer has no algorithm byte or a known
\* one (OFF, CRC32): a trailer is removed exactly when the footer says CRC32
\* and (the event is the FDE or the algorithm byte is non-zero): 5 bytes of an
\* FDE, 4 of any other event, the checksum returned in event.checksum;
\* otherwise event.data is the complete on-wire body.
C3_AsStated ==
    (Returned /\ get_checksum_alg(event.footer).res = "ok") =>
        IF event.footer.checksum_alg = Some(BINLOG_CHECKSUM_ALG_CRC32)
            /\ (is_fde(event.header) \/ event.footer.checksum_alg.v # 0)
        THEN Stripped(IF is_fde(event.header) THEN 5 ELSE 4)
        ELSE event.data = OnWireBody

\* C3: a trailer is removed exactly when the footer has an algorithm byte
\* (the server is 5.6.1 or later) and (the event is the FDE or the algorithm
\* byte is non-zero): 5 bytes of an FDE, 4 of any other event, the checksum
\* returned in event.checksum; otherwise event.data is the complete body.
C3_ChecksumApplies ==
    Returned =>
        IF event.footer.checksum_alg.some
            /\ (is_fde(event.header) \/ event.footer.checksum_alg.v # 0)
        THEN Stripped(IF is_fde(event.header) THEN 5 ELSE 4)
        ELSE event.data = OnWireBody

\* C3 witness: an FDE whose algorithm byte is 0 (OFF) was returned without
\* its last five bytes
C3_Witness ==
    /\ Returned
    /\ is_fde(event.header)
    /\ event.footer = [checksum_alg |-> Some(BINLOG_CHECKSUM_ALG_OFF)]
    /\ Removed = 5
    /\ event.checksum = LastFour(wire)

\* the footer the claim describes for an on-wire FDE body
ExpectedAlg(body) ==
    IF Len(body) < 52 \/ TupleLess(split_version(SubSeq(body, 3, 52)), <<5, 6, 1>>)
    THEN None
    ELSE Some(body[Len(body) - 4])

\* C4: BinlogEventFooter::read yields no checksum for an FDE body shorter
\* than 52 bytes or of a server version below (5,6,1), else the byte at offset
\* len - 5; after a returned FDE of a version below 5.6.1 nothing is stripped
\* from it or from a later event until another FDE, and nothing is stripped
\* from an event returned before any FDE.
C4_FooterDetection ==
    /\ (item # "-" /\ wire \in FdeEvents) =>
          BinlogEventFooter_read(SubSeq(wire, 20, Len(wire))).checksum_alg
            = ExpectedAlg(SubSeq(wire, 20, Len(wire)))
    /\ (Returned /\ is_fde(event.header)) =>
          event.footer.checksum_alg = ExpectedAlg(OnWireBody)
    /\ (Returned /\ last_fde_wire # <<>>
           /\ TupleLess(split_version(LastFdeVersion), <<5, 6, 1>>)) =>
          event.data = OnWireBody
    /\ (Returned /\ last_fde_wire = <<>>) => event.data = OnWireBody

\* C4 witness: under a returned FDE of server 5.5.62 an event that ends with
\* four checksum-like bytes was returned with its whole body
C4_Witness ==
    /\ Returned
    /\ last_fde_wire = Plain(15, 0, FdeBody(Ver_5_5_62, <<56, 13, 0, 8>>))
    /\ reader_fde.footer = [checksum_alg |-> None]
    /\ wire = Summed(33, 0, <<7, 8, 9>>, 0)
    /\ Len(event.data) = 7

\* C5: a source exhausted at an event boundary ends the iteration (None); a
\* source that ends inside an event, in its header or in its body, gives an
\* UnexpectedEof error value: no silent end, no abort.
C5_EofHandling ==
    item # "-" =>
        /\ wire = <<>> => item = "none"
        /\ wire \in CutEvents => (item = "some_err" /\ rres = Err("UnexpectedEof"))

\* the returned event is the on-wire event at ev_pos, framed by its event_size
Framed ==
    /\ BinlogEventHeader_write(event.header) = SubSeq(wire, 1, BinlogEventHeader_LEN)
    /\ consumed = ReturnedSize
    /\ event.data = SubSeq(OnWireBody, 1, Len(event.data))
    /\ Removed \in (IF is_fde(event.header) THEN {0, 5} ELSE {0, 4})
    /\ ReturnedSize = BinlogEventHeader_LEN + Len(event.data) + Removed

\* C6 as stated: on a stream of events with event_size >= 19 the k-th
\* successful read returns the k-th on-wire event, consumes exactly event_size
\* bytes, and event_size = 19 + len(data) + the trailer bytes removed.
C6_AsStated ==
    (Returned /\ all_framed) => (nok = nwire /\ Framed)

\* C6: on a stream of events with event_size >= 19 the k-th successful read
\* returns the on-wire event number k + e, e being the number of earlier
\* on-wire events whose read returned an error (so the k-th on-wire event when
\* no read failed before); it consumes exactly event_size bytes, and
\* event_size = 19 + len(data) + the trailer bytes removed.
C6_FramingOrder ==
    (Returned /\ all_framed) => (nok + nerr = nwire /\ Framed)

\* C6 witness: the first successful read returned the second on-wire event,
\* the read of the first one (an FDE too short to decode) having failed
C6_Witness ==
    /\ Returned
    /\ all_framed
    /\ nok = 1
    /\ nerr = 1
    /\ nwire = 2
    /\ wire = Summed(4, 32, RotateBody, 0)
    /\ consumed = Len(wire)

\* C7: an event whose header declares event_size < 19 is rejected by the
\* reader with an error; it is not returned as an event.
C7_ShortSizeRejected ==
    (item # "-" /\ wire \in ShortSized) => rres.res = "err"

\* C8: BinlogFile::new reads 4 bytes, once, before any event; it succeeds iff
\* they are FE 62 69 6E and fails with InvalidData for every other 4-byte
\* prefix; no event comes out of a file with a wrong sentinel; the header
\* write emits those 4 bytes.
C8_FileHeaderCheck ==
    /\ (phase \in {"open", "invalid"} /\ item = "-") =>
          /\ new_res.res = "ok" <=> wire = <<254, 98, 105, 110>>
          /\ (Len(wire) = 4 /\ wire # <<254, 98, 105, 110>>) => new_res = Err("InvalidData")
          /\ Len(wire) >= 4 => consumed = 4
    /\ phase = "open" => new_res.res = "ok"
    /\ phase = "invalid" => (new_res.res = "err" /\ item = "-" /\ nok = 0 /\ event = NoEvent)
    /\ out.of = "file_header" => out.r = Ok(<<254, 98, 105, 110>>)

\* C8 witness: a prefix that differs from the sentinel in its last byte only
\* was refused with InvalidData
C8_Witness ==
    /\ phase = "invalid"
    /\ wire = <<254, 98, 105, 111>>
    /\ new_res = Err("InvalidData")
    /\ consumed = 4

\* C9: BinlogEventHeader::read of any 19 bytes succeeds and keeps the raw
\* event type and flags, whatever their values; write of the result emits
\* the same 19 bytes.
C9_HeaderRoundTrip ==
    /\ (hdr_pc \in {"read", "written"} /\ Len(hdr_in) = 19) =>
          /\ hdr_val.res = "ok"
          /\ hdr_val.val.event_type = hdr_in[5]
          /\ hdr_val.val.flags = hdr_in[18] + 256 * hdr_in[19]
    /\ hdr_pc = "written" => hdr_out = hdr_in

\* C9 witness: a header of an unknown event type with every flag bit set,
\* read and written back
C9_Witness ==
    /\ hdr_pc = "written"
    /\ hdr_in[5] = 200
    /\ hdr_in[18] = 255
    /\ hdr_in[19] = 255
    /\ hdr_in[13] = 255
    /\ hdr_out = hdr_in

\* the declared event types the library does not interpret
Uninterpreted == {1, 6, 8, 9, 10, 11, 12} \cup (20..25) \cup {28} \cup (33..39)

\* C10: Event::read_data returns None only for a type byte EventType does not
\* define (above 0x27); for the uninterpreted types the payload is a byte
\* vector equal to event.data and its write reproduces event.data.
C10_ReadData ==
    /\ (payload # Idle /\ payload.r = Ok(None)) =>
          ~EventTypeDeclared(event.header.event_type)
    /\ (payload # Idle /\ event.header.event_type \in Uninterpreted) =>
          /\ payload.r.res = "ok"
          /\ payload.r.val.some
          /\ payload.r.val.v.bytes = event.data
    /\ (out.of = "payload" /\ event.header.event_type \in Uninterpreted) =>
          out.r = Ok(event.data)

\* the post-header table the most recently returned FDE event declares, read
\* off its wire bytes (none before the first FDE)
DeclaredTable ==
    IF last_fde_wire = <<>> THEN <<>>
    ELSE DecodedFde(last_fde_wire).event_type_header_lengths

\* C17: get_event_type_header_length(t) of the active FDE is 0 for
\* UNKNOWN_EVENT, the entry at index t - 1 of the table the last FDE declared
\* when it has one, and else the built-in default of t (13 for QUERY, 8 for
\* ROTATE, 10 for the V2 rows events, 8 for TABLE_MAP, 0 for XID, INTVAR and
\* RAND); a QueryEvent that follows an FDE is decoded with the QUERY length
\* of that FDE: the post-header bytes beyond 13 are skipped, status_vars and
\* schema are the bytes after them.
C17_PostHeaderLookup ==
    /\ phase = "open" =>
          \A t \in 0..ENUM_END_EVENT :
              get_event_type_header_length(reader_fde, t) =
                  IF t = UNKNOWN_EVENT THEN 0
                  ELSE IF t <= Len(DeclaredTable) THEN DeclaredTable[t]
                  ELSE IF t = QUERY_EVENT THEN 13
                  ELSE IF t \in {ROTATE_EVENT, TABLE_MAP_EVENT} THEN 8
                  ELSE IF t \in {WRITE_ROWS_EVENT, UPDATE_ROWS_EVENT, DELETE_ROWS_EVENT}
                       THEN 10
                  ELSE IF t \in {XID_EVENT, INTVAR_EVENT, RAND_EVENT} THEN 0
                  ELSE DefaultHeaderLengths[t]
    /\ (payload # Idle /\ event.header.event_type = QUERY_EVENT /\ payload.r.res = "ok") =>
          LET d      == event.data
              q      == payload.r.val.v
              length == IF Len(DeclaredTable) >= QUERY_EVENT
                        THEN DeclaredTable[QUERY_EVENT] ELSE 13
              from   == IF length > 13 THEN length ELSE 13
              sv_len == d[12] + 256 * d[13]
          IN  /\ event.fde.event_type_header_lengths = DeclaredTable
              /\ q.status_vars = SubSeq(d, from + 1, from + sv_len)
              /\ q.schema = SubSeq(d, from + sv_len + 1, from + sv_len + d[9])
              /\ q.query = SubSeq(d, from + sv_len + d[9] + 2, Len(d))

\* a Query event was read after an FDE that declares 14 for QUERY and was
\* decoded: the 14th byte (09) is skipped and status_vars is what follows
C17_Witness ==
    /\ payload # Idle
    /\ event.header.event_type = QUERY_EVENT
    /\ Len(DeclaredTable) >= QUERY_EVENT
    /\ DeclaredTable[QUERY_EVENT] = 14
    /\ payload.r.res = "ok"
    /\ event.data[14] = 9
    /\ payload.r.val.v.status_vars = <<0, 1, 0, 0, 0>>
    /\ payload.r.val.v.schema = <<100, 98>>

\* the returned event was read under a footer whose algorithm byte is neither
\* OFF nor CRC32
UnknownAlgorithm ==
    /\ Returned
    /\ event.footer.checksum_alg.some
    /\ event.footer.checksum_alg.v \notin {BINLOG_CHECKSUM_ALG_OFF, BINLOG_CHECKSUM_ALG_CRC32}

\* C20: an event read under an FDE whose algorithm byte is neither 0 nor 1 is
\* returned without error, Event::len of it is header.event_size and
\* Event::write emits its on-wire bytes, for the FDE itself and for the
\* events that follow it.
C20_UnknownAlgorithmPreserved ==
    UnknownAlgorithm =>
        /\ Event_len(event) = ReturnedSize
        /\ out.of = "event" => out.r = Ok(OnWireEvent)

(***************************************************************************)
(* Properties of the payload codecs.                                       *)
(***************************************************************************)
\* read_data has decoded the body into a payload
Decoded == cd_pc \in {"read", "written"} /\ cd_val.res = "ok" /\ cd_val.val.some

\* C11: for every body a payload decoder other than UserVarEvent accepts
\* under the active FDE, standard or with other post-header lengths,
\* EventData::write of the decoded payload succeeds and emits exactly the
\* body that was decoded.
C11_PayloadRoundTrip ==
    (cd_pc = "written" /\ cd_in.type # USER_VAR_EVENT) => cd_out = Ok(cd_in.body)

\* a is the beginning of b
IsPrefix(a, b) == Len(a) <= Len(b) /\ SubSeq(b, 1, Len(a)) = a

\* the body is a non-null user variable that ends right after its value
LegacyForm ==
    /\ ~cd_val.val.v.is_null
    /\ Len(cd_in.body) = 4 + Len(cd_val.val.v.name) + 1 + 9 + Len(cd_val.val.v.value)

\* C12: for every body the UserVarEvent decoder accepts, the encoder's
\* output begins with the body, is as long as the body or one byte longer,
\* is one byte longer exactly when the value is non-null and the body has
\* no flags byte, and for a null value ends with the is_null byte.
C12_UserVarRoundTrip ==
    (cd_pc = "written" /\ cd_in.type = USER_VAR_EVENT) =>
        /\ cd_out.res = "ok"
        /\ IsPrefix(cd_in.body, cd_out.val)
        /\ Len(cd_out.val) \in {Len(cd_in.body), Len(cd_in.body) + 1}
        /\ (Len(cd_out.val) = Len(cd_in.body) + 1) <=> LegacyForm
        /\ cd_val.val.v.is_null => Len(cd_out.val) = 4 + Len(cd_val.val.v.name) + 1

\* the result of the decoder read_data calls for the body, with the limit
\* its reader had left when it returned
DecoderResult ==
    LET ev   == BodyEvent(cd_in)
        size == BinlogEventHeader_LEN + Len(ev.data)
    IN  CASE cd_in.type = XID_EVENT -> XidEvent_read(size, ev.fde, ev.data)
          [] cd_in.type = ROTATE_EVENT -> RotateEvent_read(size, ev.fde, ev.data)
          [] cd_in.type \in DecodedTypes -> read_event(cd_in.type, ev)

\* C13: a payload decoder that returns success has consumed all
\* event_size - 19 bytes of the body: its limited reader has nothing left
\* (a decoder that stops before the end fails with "bytes remaining on
\* stream" instead).
C13_NoTrailingBytes ==
    (cd_pc \in {"read", "written"}
        /\ cd_in.type \in DecodedTypes \cup {XID_EVENT, ROTATE_EVENT}
        /\ DecoderResult.res = "ok")
    => DecoderResult.left = 0

\* the body decoded is a rows event
DecodedRows ==
    Decoded /\ cd_in.type \in {WRITE_ROWS_EVENT, UPDATE_ROWS_EVENT, DELETE_ROWS_EVENT}

\* an image that is present has n bits kept in ceil(n / 8) bytes
ImageOf(img, n) == img.some => (img.v.bits = n /\ Len(img.v.raw) = (n + 7) \div 8)

\* C16: a decoded WriteRowsEvent has the after image only, a decoded
\* DeleteRowsEvent the before image only, a decoded UpdateRowsEvent both;
\* the images are the ceil(num_columns / 8)-byte groups that precede the
\* rows data on the wire, the before image first, and each image has
\* exactly num_columns bits, whatever the padding bits are.
C16_RowsImages ==
    DecodedRows =>
        LET ev     == cd_val.val.v
            before == ev.columns_before_image
            after  == ev.columns_after_image
            to     == Len(cd_in.body) - Len(ev.rows_data)
            images == image_bytes(before) \o image_bytes(after)
        IN  /\ after.some <=> cd_in.type \in {WRITE_ROWS_EVENT, UPDATE_ROWS_EVENT}
            /\ before.some <=> cd_in.type \in {DELETE_ROWS_EVENT, UPDATE_ROWS_EVENT}
            /\ ImageOf(before, ev.num_columns)
            /\ ImageOf(after, ev.num_columns)
            /\ SubSeq(cd_in.body, to - Len(images) + 1, to) = images
            /\ ev.rows_data = SubSeq(cd_in.body, to + 1, Len(cd_in.body))

\* an update of 9 columns is decoded: two images of 2 bytes, whose padding
\* bits are clear in the first and set in the second
C16_Witness ==
    /\ DecodedRows
    /\ cd_in.type = UPDATE_ROWS_EVENT
    /\ cd_val.val.v.num_columns = 9
    /\ cd_val.val.v.columns_before_image = Some([raw |-> <<255, 1>>, bits |-> 9])
    /\ cd_val.val.v.columns_after_image = Some([raw |-> <<255, 255>>, bits |-> 9])

(***************************************************************************)
(* Properties of the column metadata look-up.                              *)
(***************************************************************************)
\* the sum of the metadata lengths of the columns 0 .. n - 1
RECURSIVE LeftLengths(_, _)
LeftLengths(ct, n) ==
    IF n = 0 THEN 0 ELSE LeftLengths(ct, n - 1) + get_metadata_len(ct[n])

\* C14: get_column_metadata(i) is the slice of columns_metadata that starts
\* at the sum of the metadata lengths of the columns left of i and has the
\* metadata length of column i; it is None when i is out of bounds, when
\* the slice does not lie in the blob, or when column i or a column left
\* of it has an unknown type.
C14_ColumnMetadata ==
    cd_pc = "done" =>
        LET ct    == cd_in.columns_type
            i     == cd_in.col_idx
            known == i < Len(ct) /\ \A k \in 1..(i + 1) : ct[k] \in KnownColumnTypes
            from  == LeftLengths(ct, i)
            to    == from + get_metadata_len(ct[i + 1])
        IN  IF known /\ to <= Len(cd_in.columns_metadata)
            THEN cd_val = Some(SubSeq(cd_in.columns_metadata, from + 1, to))
            ELSE cd_val = None

(***************************************************************************)
(* Properties of the status variables iterator.                            *)
(***************************************************************************)
\* the number of 0x00 bytes of q
ZerosIn(q) == Cardinality({ i \in 1..Len(q) : q[i] = 0 })

\* the length the rule of key k gives the value that begins `rest`, the
\* bytes after the key byte; -1 when the rule needs a byte that is not there
RuleLen(k, rest) ==
    CASE k = StatusVarKey_Catalog -> IF rest = <<>> THEN -1 ELSE 1 + rest[1] + 1
      [] k \in {StatusVarKey_TimeZone, StatusVarKey_CatalogNz} ->
            IF rest = <<>> THEN -1 ELSE 1 + rest[1]
      [] k = StatusVarKey_Invoker ->
            IF rest = <<>> THEN -1
            ELSE IF Len(rest) < 2 + rest[1] THEN -1
            ELSE 1 + rest[1] + 1 + rest[2 + rest[1]]
      [] k = StatusVarKey_UpdatedDbNames ->
            IF rest = <<>> THEN -1
            ELSE LET ends == { n \in 1..Len(rest) :
                                 /\ ZerosIn(SubSeq(rest, 2, n)) = rest[1]
                                 /\ (n = 1 \/ rest[n] = 0) }
                 IN  IF ends = {} THEN -1
                     ELSE CHOOSE n \in ends : \A m \in ends : n <= m
      [] OTHER -> FixedValueLen[k]

\* where the item after the items yielded so far begins
NextAt ==
    IF cd_out = <<>> THEN 0
    ELSE cd_out[Len(cd_out)].at + 1 + Len(cd_out[Len(cd_out)].value)

\* C15: the iterator yields the variables in source order: the first at
\* offset 0, each next one right after the one before; each value is the
\* bytes right after its key byte, as many as the key's rule gives (4 for
\* Flags2, 8 for SqlMode, 3 for Microseconds, 0 for CommitTs and CommitTs2,
\* the length-prefixed rules for Catalog, TimeZone, CatalogNz, Invoker and
\* UpdatedDbNames); iteration ends only at the end of the block, at an
\* unknown key byte, or at a value that reaches past the end of the block,
\* and then without an item.
C15_StatusVarsIteration ==
    /\ \A j \in 1..Len(cd_out) :
          LET it == cd_out[j]
          IN  /\ it.at = IF j = 1 THEN 0
                         ELSE cd_out[j - 1].at + 1 + Len(cd_out[j - 1].value)
              /\ cd_in[it.at + 1] = it.key
              /\ it.value = SubSeq(cd_in, it.at + 2, it.at + 1 + Len(it.value))
              /\ Len(it.value) = RuleLen(it.key, SubSeq(cd_in, it.at + 2, Len(cd_in)))
              /\ it.key = 0 => Len(it.value) = 4
              /\ it.key = 1 => Len(it.value) = 8
              /\ it.key = 13 => Len(it.value) = 3
              /\ it.key \in {14, 15} => Len(it.value) = 0
    /\ cd_pc = "done" =>
          \/ NextAt >= Len(cd_in)
          \/ cd_in[NextAt + 1] > StatusVarKey_Last
          \/ LET n == RuleLen(cd_in[NextAt + 1], SubSeq(cd_in, NextAt + 2, Len(cd_in)))
             IN  n = -1 \/ NextAt + 1 + n > Len(cd_in)
    /\ (cd_pc = "in" /\ NextAt < Len(cd_in) /\ cd_in[NextAt + 1] <= StatusVarKey_Last) =>
          cd_val.pos = NextAt

\* an UpdatedDbNames variable with two names was yielded, and the iteration
\* ended at a following piece that does not parse
C15_Witness ==
    /\ cd_pc = "done"
    /\ Len(cd_out) = 1
    /\ cd_out[1] = [at |-> 0, key |-> StatusVarKey_UpdatedDbNames,
                    value |-> <<2, 97, 0, 98, 99, 0>>]
    /\ NextAt < Len(cd_in)

(***************************************************************************)
(* Properties of len and write on long fields.                             *)
(***************************************************************************)
\* the length-prefixed fields of a payload value: the field bytes, the
\* largest length the prefix can express, where the prefix is in the bytes
\* written (offset of its first byte, width) and what it adds to the length
PrefixedFields(p) ==
    CASE p.variant \in {"QueryEvent", "ExecuteLoadQueryEvent"} ->
           << [bytes |-> p.status_vars, max |-> 65535, at |-> 12, w |-> 2, plus |-> 0],
              [bytes |-> p.schema, max |-> 255, at |-> 9, w |-> 1, plus |-> 0] >>
      [] p.variant = "IncidentEvent" ->
           << [bytes |-> p.message, max |-> 255, at |-> 3, w |-> 1, plus |-> 0] >>
      [] p.variant = "TableMapEvent" ->
           << [bytes |-> p.database_name, max |-> 255, at |-> 9, w |-> 1, plus |-> 0],
              [bytes |-> p.table_name, max |-> 255,
               at |-> 11 + Len(p.database_name), w |-> 1, plus |-> 0] >>
      [] p.variant = "RowsEvent" ->
           << [bytes |-> p.extra_data, max |-> 65533, at |-> 9, w |-> 2, plus |-> 2] >>
      [] p.variant = "RowsQueryEvent" -> << >>

OverLong(p) ==
    \E i \in 1..Len(PrefixedFields(p)) :
        Len(PrefixedFields(p)[i].bytes) > PrefixedFields(p)[i].max

\* C18: a write of a payload one of whose length-prefixed fields is longer
\* than its prefix can express (schema > 255 or status_vars > 65535 in Query
\* and ExecuteLoadQuery, incident message > 255, table or database name >
\* 255, rows extra_data > 65533) fails with WriteZero; a write that succeeds
\* has, for every such field, a prefix equal to the number of field bytes.
C18_OverLongWriteFails ==
    cd_pc = "written" =>
        /\ OverLong(cd_in) => cd_out = Err("WriteZero")
        /\ cd_out.res = "ok" =>
              \A i \in 1..Len(PrefixedFields(cd_in)) :
                  LET f == PrefixedFields(cd_in)[i]
                  IN  ReadLE(SubSeq(cd_out.val, f.at, f.at + f.w - 1))
                      = Len(f.bytes) + f.plus

\* a Query value with a schema of 256 bytes was written
C18_Witness ==
    /\ cd_pc = "written"
    /\ cd_in.variant = "QueryEvent"
    /\ Len(cd_in.schema) = 256
    /\ Len(cd_in.status_vars) = 5
    /\ cd_out = Err("WriteZero")

\* the serialized size of a payload value with every field at its full
\* length: the bytes of the layout other than the prefixed fields, and them
UntruncatedSize(p) ==
    CASE p.variant = "QueryEvent" ->
           13 + Len(p.status_vars) + Len(p.schema) + 1 + Len(p.query)
      [] p.variant = "ExecuteLoadQueryEvent" ->
           26 + Len(p.status_vars) + Len(p.schema) + 1 + Len(p.query)
      [] p.variant = "IncidentEvent" -> 3 + Len(p.message)
      [] p.variant = "TableMapEvent" ->
           9 + Len(p.database_name) + 2 + Len(p.table_name) + 1
             + 1 + Len(p.columns_type) + 1 + Len(p.columns_metadata)
             + Len(as_raw_slice(p.null_bitmask)) + Len(p.optional_metadata)
      [] p.variant = "RowsQueryEvent" -> 1 + Len(p.query)
      [] p.variant = "RowsEvent" ->
           10 + Len(p.extra_data) + 1 + Len(image_bytes(p.columns_before_image))
              + Len(image_bytes(p.columns_after_image)) + Len(p.rows_data)

\* what len leaves out of field i of p: the bytes beyond the length len
\* counts it at, which is the prefix maximum but for the status_vars of an
\* ExecuteLoadQueryEvent, counted at 65522 at most
LeftOut(p, i) ==
    LET f   == PrefixedFields(p)[i]
        cap == IF p.variant = "ExecuteLoadQueryEvent" /\ i = 1 THEN 65522 ELSE f.max
    IN  SatSub(Len(f.bytes), cap)

BINLOG_DUMP_NON_BLOCK == 1
BinlogDumpFlagBits == {1, 2, 4}

\* BinlogRequest::new(server_id)
BinlogRequest_new(server_id) ==
    [server_id |-> server_id,
     use_gtid  |-> FALSE,
     flags     |-> {},
     filename  |-> <<>>,
     hostname  |-> <<>>,
     port      |-> 0,
     pos       |-> <<0, 0, 0, 0, 0, 0, 0, 4>>,
     sids      |-> <<>>]

\* ComBinlogDump::new(server_id).with_pos(..).with_filename(..).with_flags(..)
ComBinlogDump(server_id, pos, filename, flags) ==
    [cmd |-> "ComBinlogDump", server_id |-> server_id, pos |-> pos,
     filename |-> filename, flags |-> flags]

\* ComBinlogDumpGtid::new(server_id).with_pos(..).with_flags(..)
\*     .with_filename(..).with_sids(..)
ComBinlogDumpGtid(server_id, pos, flags, filename, sids) ==
    [cmd |-> "ComBinlogDumpGtid", server_id |-> server_id, pos |-> pos,
     flags |-> flags, filename |-> filename, sids |-> sids]

\* `pos as u32` of a u64 held as eight base-256 digits: the low four digits
AsU32(pos) == SubSeq(pos, 5, 8)

\* a mutant: the legacy command keeps every flag of the request
as_cmd_KeepFlags(rq) ==
    IF rq.use_gtid
    THEN ComBinlogDumpGtid(rq.server_id, rq.pos, rq.flags, rq.filename, rq.sids)
    ELSE ComBinlogDump(rq.server_id, AsU32(rq.pos), rq.filename, rq.flags)

\* BinlogRequest::as_cmd: Either::Right for use_gtid, else Either::Left
as_cmd(rq) ==
    IF rq.use_gtid
    THEN ComBinlogDumpGtid(rq.server_id, rq.pos, rq.flags, rq.filename, rq.sids)
    ELSE ComBinlogDump(rq.server_id, AsU32(rq.pos), rq.filename,
                       rq.flags \cap {BINLOG_DUMP_NON_BLOCK})

\* the values the builder is given
RequestServerIds == {1, 7}
RequestFilenames == {<<>>, <<98, 105, 110, 46, 49>>}
RequestPositions ==
    {<<0, 0, 0, 0, 0, 0, 0, 4>>, <<0, 0, 0, 0, 255, 255, 255, 255>>,
     <<0, 0, 0, 1, 0, 0, 0, 4>>, <<1, 2, 3, 4, 5, 6, 7, 8>>}
RequestSids == {<<>>, <<"sid1">>, <<"sid1", "sid2">>}
RequestHostnames == {<<>>, <<104>>}
RequestPorts == {0, 3306}

InitRequest ==
    /\ InitStream
    /\ HdrOff
    /\ cd_in \in {BinlogRequest_new(id) : id \in RequestServerIds}
    /\ cd_pc = "built"
    /\ cd_val = Idle
    /\ cd_out = Idle

\* a builder step changes one field of the request; cd_pc, cd_val, cd_out stay
BuilderStep(field, value) ==
    /\ cd_pc = "built"
    /\ cd_in' = [cd_in EXCEPT ![field] = value]
    /\ UNCHANGED <<cd_pc, cd_val, cd_out>>
    /\ UNCHANGED <<streamVars, hdrVars>>

with_server_id == \E v \in RequestServerIds : BuilderStep("server_id", v)
with_hostname == \E v \in RequestHostnames : BuilderStep("hostname", v)
with_port == \E v \in RequestPorts : BuilderStep("port", v)
with_use_gtid == \E v \in BOOLEAN : BuilderStep("use_gtid", v)
with_flags == \E v \in SUBSET BinlogDumpFlagBits : BuilderStep("flags", v)
with_filename == \E v \in RequestFilenames : BuilderStep("filename", v)
with_pos == \E v \in RequestPositions : BuilderStep("pos", v)
with_sids == \E v \in RequestSids : BuilderStep("sids", v)

\* as_cmd(&self): the command borrows the request, which is left as it is;
\* cd_val keeps the request as it was when as_cmd was called
AsCmd ==
    /\ cd_pc = "built"
    /\ cd_out' = as_cmd(cd_in)
    /\ cd_val' = cd_in
    /\ cd_pc' = "cmd"
    /\ UNCHANGED cd_in
    /\ UNCHANGED <<streamVars, hdrVars>>

NextRequest ==
    \/ with_server_id
    \/ with_hostname
    \/ with_port
    \/ with_use_gtid
    \/ with_flags
    \/ with_filename
    \/ with_pos
    \/ with_sids
    \/ AsCmd

SpecRequest == InitRequest /\ [][NextRequest]_vars

\* C21: as_cmd chooses the command by use_gtid alone: with use_gtid it is the
\* GTID dump command with server_id, the whole 64-bit pos, all flags, the
\* filename and the sids of the request; without it the legacy dump command
\* with server_id, the filename, pos mod 2^32, of the flags only
\* BINLOG_DUMP_NON_BLOCK if the request has it, and no sids; the request is
\* what it was before the call.
C21_AsCmd ==
    cd_pc = "cmd" =>
        /\ cd_in = cd_val
        /\ cd_out.cmd = (IF cd_in.use_gtid THEN "ComBinlogDumpGtid" ELSE "ComBinlogDump")
        /\ cd_out.server_id = cd_in.server_id
        /\ cd_out.filename = cd_in.filename
        /\ cd_in.use_gtid =>
              /\ cd_out.pos = cd_in.pos
              /\ cd_out.flags = cd_in.flags
              /\ cd_out.sids = cd_in.sids
        /\ ~cd_in.use_gtid =>
              /\ Len(cd_out.pos) = 4
              /\ \A i \in 1..4 : cd_out.pos[i] = cd_in.pos[4 + i]
              /\ cd_out.flags = {f \in cd_in.flags : f = 1}
              /\ DOMAIN cd_out = {"cmd", "server_id", "pos", "filename", "flags"}

\* the legacy command of a request with pos = 2^32 + 4, all three flags and
\* two sids: pos 4, BINLOG_DUMP_NON_BLOCK only
C21_Witness ==
    /\ cd_pc = "cmd"
    /\ ~cd_in.use_gtid
    /\ cd_in.pos = <<0, 0, 0, 1, 0, 0, 0, 4>>
    /\ cd_in.flags = {1, 2, 4}
    /\ Len(cd_in.sids) = 2
    /\ cd_out.pos = <<0, 0, 0, 4>>
    /\ cd_out.flags = {1}

(***************************************************************************)
(* len and write of payload values whose fields fit their prefixes.        *)
(***************************************************************************)
\* a rows event of the given type: the images its type has, two columns
RowsValueOf(type, x) ==
    [RowsValue(x) EXCEPT
        !.type = type,
        !.columns_before_image =
            IF type = WRITE_ROWS_EVENT THEN None ELSE Some(BitVec_from_vec(<<1>>, 2)),
        !.columns_after_image =
            IF type = DELETE_ROWS_EVENT THEN None ELSE Some(BitVec_from_vec(<<3>>, 2))]

UserVarValueOf(is_null, value) ==
    [variant    |-> "UserVarEvent",
     name       |-> <<97, 98>>,
     is_null    |-> is_null,
     value_type |-> STRING_RESULT,
     charset    |-> <<0, 0, 0, 63>>,
     value      |-> value,
     flags      |-> 0]

\* the lengths tried for fields that fit: one-byte prefixes, status_vars
\* (two-byte prefix) and rows extra data
FitNameLens == {0, 2, U8_MAX}
FitStatusVarsLens == {0, 5, U16_MAX - 13, U16_MAX - 12, U16_MAX}
FitExtraDataLens == {0, 3, U16_MAX - 2}

InitLen ==
    /\ InitStream
    /\ HdrOff
    /\ cd_in \in
          { QueryValue(sv, sc) : sv \in {0, 5, U16_MAX}, sc \in FitNameLens }
          \cup { ExecuteLoadQueryValue(sv, sc) : sv \in FitStatusVarsLens, sc \in {0, 2} }
          \cup { [variant |-> "RotateEvent", position |-> <<0, 0, 0, 0, 0, 0, 0, 4>>,
                  name |-> n] : n \in {<<>>, <<98, 105, 110, 46, 50>>} }
          \cup { [variant |-> "IntvarEvent", subtype |-> t,
                  value |-> <<0, 0, 0, 0, 0, 0, 1, 44>>] : t \in {1, 2} }
          \cup { [variant |-> "RandEvent", seed1 |-> <<0, 0, 0, 0, 0, 0, 0, s>>,
                  seed2 |-> <<1, 2, 3, 4, 5, 6, 7, 8>>] : s \in {0, 9} }
          \cup { [variant |-> "XidEvent", xid |-> <<0, 0, 0, 0, 0, 0, 0, x>>] : x \in {1, 2} }
          \cup { UserVarValueOf(TRUE, <<>>), UserVarValueOf(FALSE, <<>>),
                 UserVarValueOf(FALSE, <<120, 121, 122>>) }
          \cup { IncidentValue(m) : m \in FitNameLens }
          \cup { [variant |-> "BeginLoadQueryEvent", file_id |-> <<0, 0, 0, 7>>,
                  block_data |-> d] : d \in {<<>>, <<1, 2, 3>>} }
          \cup { RowsQueryValue(q) : q \in FitNameLens }
          \cup { RowsValueOf(t, x) :
                     t \in {WRITE_ROWS_EVENT, UPDATE_ROWS_EVENT, DELETE_ROWS_EVENT},
                     x \in FitExtraDataLens }
          \cup { [variant |-> "FormatDescriptionEvent", fde |-> FdeOf(t)] :
                     t \in {<<>>, StdTable} }
    /\ cd_pc = "in"
    /\ cd_val = Idle
    /\ cd_out = Idle

SpecLen == InitLen /\ [][NextWrite]_vars

\* C22: for every payload value other than a TableMapEvent whose fields fit
\* their length prefixes, write succeeds and the number of bytes it emits is
\* len().
C22_LenIsWrittenLength ==
    cd_pc = "written" =>
        /\ cd_out.res = "ok"
        /\ Len(cd_out.val) = cd_val

(***************************************************************************)
(* len and write of table map events of every column count.                *)
(***************************************************************************)
\* the column counts tried: 0..MaxColumnCount, and counts around 251, where
\* the length-encoded count takes three bytes
MaxColumnCount == 24
ColumnCounts == (0..MaxColumnCount) \cup {250, 251, 256, 257}

\* a table map event of n LONG columns, all nullable, as the decoder builds it
TableMapOfCount(n, optional) ==
    [TableMapValue(2, 1) EXCEPT
        !.columns_type = Fill(n, 3),
        !.columns_metadata = <<>>,
        !.null_bitmask = BitVec_from_vec(Fill((n + 7) \div 8, 255), n),
        !.optional_metadata = optional]

InitTableMap ==
    /\ InitStream
    /\ HdrOff
    /\ cd_in \in { TableMapOfCount(n, o) : n \in ColumnCounts, o \in {<<>>, <<1, 1, 0>>} }
    /\ cd_pc = "in"
    /\ cd_val = Idle
    /\ cd_out = Idle

SpecTableMap == InitTableMap /\ [][NextWrite]_vars

\* the least k with 8 * k >= n
CeilEighth(n) == CHOOSE k \in 0..n : 8 * k >= n /\ (k = 0 \/ 8 * (k - 1) < n)

\* C23: for every column count n the bitmap term (n + 8) / 7 of
\* TableMapEvent::len is at least the ceil(n / 8) bytes write emits for the
\* null bitmask, len() is at least the number of bytes written, and the
\* write under the limit len() succeeds with every byte of the event.
C23_TableMapLenUpperBound ==
    LET n == Len(cd_in.columns_type)
    IN  /\ cd_pc \in {"measured", "written"} =>
              /\ (n + 8) \div 7 >= CeilEighth(n)
              /\ Len(as_raw_slice(cd_in.null_bitmask)) = CeilEighth(n)
        /\ cd_pc = "written" =>
              /\ cd_out.res = "ok"
              /\ cd_val >= Len(cd_out.val)
              /\ cd_val - Len(cd_out.val) = (n + 8) \div 7 - CeilEighth(n)
              /\ SubSeq(cd_out.val, Len(cd_out.val) - Len(cd_in.optional_metadata) + 1,
                        Len(cd_out.val)) = cd_in.optional_metadata

\* a table map event of 8 columns was written: one bitmap byte, counted as 2
C23_Witness ==
    /\ cd_pc = "written"
    /\ Len(cd_in.columns_type) = 8
    /\ cd_out.res = "ok"
    /\ cd_val = Len(cd_out.val) + 1

(***************************************************************************)
(* Decoding table map events whose metadata blob has any length.           *)
(***************************************************************************)
\* a TableMap body with a 6-byte table id, database "d", table "t", the given
\* column types, a metadata blob of m bytes and an all-ones null bitmask
TableMapBodyOf(types, m) ==
    <<42, 0, 0, 0, 0, 0>> \o <<1, 0, 1, 100, 0, 1, 116, 0>>
    \o <<Len(types)>> \o types \o <<m>> \o Fill(m, 7)
    \o Fill((Len(types) + 7) \div 8, 255)

\* the column types tried: LONG (no metadata), BLOB (1 byte), VARCHAR (2)
TriedColumnTypes == {MYSQL_TYPE_LONG, MYSQL_TYPE_BLOB, MYSQL_TYPE_VARCHAR}
MaxMetadataLen == 4

InitTableMapRead ==
    /\ InitStream
    /\ HdrOff
    /\ cd_in \in { [type |-> TABLE_MAP_EVENT, body |-> TableMapBodyOf(types, m),
                    table |-> StdTable] :
                       types \in SeqsUpTo(TriedColumnTypes, 2), m \in 0..MaxMetadataLen }
    /\ cd_pc = "in"
    /\ cd_val = Idle
    /\ cd_out = Idle

SpecTableMapRead == InitTableMapRead /\ [][NextPayload]_vars

\* the metadata length the format gives a column type
MetadataLenOf(ty) ==
    IF ty \in {254, 253, 15, 0, 246, 248, 247} THEN 2
    ELSE IF ty \in {252, 5, 4} THEN 1
    ELSE 0

RECURSIVE MetadataLenSum(_)
MetadataLenSum(types) ==
    IF types = <<>> THEN 0 ELSE MetadataLenOf(Head(types)) + MetadataLenSum(Tail(types))

\* C24: every TableMapEvent the decoder returns has a columns_metadata whose
\* length is the sum over its columns of the metadata length of the column
\* type; a body whose blob length disagrees with its column types is not
\* returned as an event.
C24_MetadataLenInvariant ==
    (cd_pc \in {"read", "written"} /\ cd_val.res = "ok") =>
        Len(cd_val.val.v.columns_metadata) = MetadataLenSum(cd_val.val.v.columns_type)

(***************************************************************************)
(* Parsed values of status variables (StatusVar::get_value).               *)
(***************************************************************************)
StatusVarKey_Microseconds == 13

\* the names loop of the UpdatedDbNames arm: `count` rounds over `read`;
\* position(|x| *x == 0) is the index of the first 0x00 of read, the name is
\* read[..index] and read becomes read[index..]; None when no 0x00 is left
RECURSIVE updated_db_names(_, _, _)
updated_db_names(read, count, names) ==
    IF count = 0 THEN Some(names)
    ELSE LET zeros == {i \in 1..Len(read) : read[i] = 0}
         IN  IF zeros = {} THEN None
             ELSE LET index == (CHOOSE i \in zeros : \A j \in zeros : i <= j) - 1
                  IN  updated_db_names(SubSeq(read, index + 1, Len(read)), count - 1,
                                       Append(names, SubSeq(read, 1, index)))

\* StatusVar::get_value: Ok(the parsed value) or Err(the raw value)
StatusVar_get_value(key, value) ==
    LET raw == Err(value)
        n   == Len(value)
        int(width) ==
            IF n < width THEN raw ELSE Ok(ReadWide(SubSeq(value, 1, width)))
        ints(count) ==
            IF n < 2 * count THEN raw
            ELSE Ok([i \in 1..count |-> ReadLE(SubSeq(value, 2 * i - 1, 2 * i))])
        text ==
            IF n < 1 \/ n - 1 < value[1] THEN raw ELSE Ok(SubSeq(value, 2, 1 + value[1]))
    IN  CASE key \in {0, 10} -> int(4)
          [] key \in {1, 9, 17} -> int(8)
          [] key \in {StatusVarKey_Catalog, 14, 15} -> Ok(value)
          [] key = 3 -> ints(2)
          [] key = 4 -> ints(3)
          [] key \in {StatusVarKey_TimeZone, StatusVarKey_CatalogNz} -> text
          [] key \in {7, 8, 18} -> ints(1)
          [] key = StatusVarKey_Invoker ->
                IF n < 1 \/ n - 1 < value[1] THEN raw
                ELSE LET len  == value[1]
                         rest == SubSeq(value, 2 + len, n)
                     IN  IF Len(rest) < 1 \/ Len(rest) - 1 < rest[1] THEN raw
                         ELSE Ok([username |-> SubSeq(value, 2, 1 + len),
                                  hostname |-> SubSeq(rest, 2, 1 + rest[1])])
          [] key = StatusVarKey_UpdatedDbNames ->
                IF n < 1 THEN raw
                ELSE LET names == updated_db_names(Tail(value), value[1], <<>>)
                     IN  IF names.some THEN Ok(names.v) ELSE raw
          [] key = StatusVarKey_Microseconds -> int(4)
          [] key = 16 -> IF n < 1 THEN raw ELSE Ok(value[1] # 0)
          [] key \in {19, 20} -> IF n < 1 THEN raw ELSE Ok(value[1])

\* one step of `for var in status_vars.iter() { var.get_value() }`
StatusVars_get_value ==
    /\ cd_pc = "in"
    /\ LET r == StatusVarsIterator_next(cd_in, cd_val.pos)
       IN  /\ cd_val' = [cd_val EXCEPT !.pos = r.pos]
           /\ cd_out' = IF r.item.some
                        THEN Append(cd_out,
                                    [key    |-> r.item.v.key,
                                     value  |-> r.item.v.value,
                                     parsed |-> StatusVar_get_value(r.item.v.key,
                                                                    r.item.v.value)])
                        ELSE cd_out
           /\ cd_pc' = IF r.item.some THEN "in" ELSE "done"
    /\ UNCHANGED cd_in
    /\ UNCHANGED <<streamVars, hdrVars>>

SpecStatusValues == InitStatusVars /\ [][StatusVars_get_value]_vars

\* the names of an UpdatedDbNames value: the runs of bytes ended by 0x00
\* after the count byte, in order
RECURSIVE NulTerminated(_, _)
NulTerminated(bytes, name) ==
    IF bytes = <<>> THEN <<>>
    ELSE IF Head(bytes) = 0 THEN <<name>> \o NulTerminated(Tail(bytes), <<>>)
    ELSE NulTerminated(Tail(bytes), Append(name, Head(bytes)))

\* C25: get_value of an UpdatedDbNames variable the iterator yields is Ok
\* with exactly `count` names, the i-th being the i-th NUL-terminated name of
\* the value without its NUL.
C25_UpdatedDbNames ==
    \A i \in 1..Len(cd_out) :
        cd_out[i].key = StatusVarKey_UpdatedDbNames =>
            /\ cd_out[i].parsed.res = "ok"
            /\ Len(cd_out[i].parsed.val) = cd_out[i].value[1]
            /\ cd_out[i].parsed.val = NulTerminated(Tail(cd_out[i].value), <<>>)

\* C26: get_value of every variable the iterator yields is Ok, and the value
\* of Microseconds is the integer of its three bytes, little-endian.
C26_IteratorAndParserAgree ==
    \A i \in 1..Len(cd_out) :
        /\ cd_out[i].parsed.res = "ok"
        /\ cd_out[i].key = StatusVarKey_Microseconds =>
              cd_out[i].parsed.val = ReadWide(cd_out[i].value)

(***************************************************************************)
(* Properties of failed reads.                                             *)
(***************************************************************************)
\* the source held a complete event for the last read
ReadComplete == phase \in {"open", "panicked"} /\ wire \in CompleteEvents

\* C27: when EventStreamReader::read returns an error (the header cut short,
\* or an FDE event whose body does not decode as an FDE) the active FDE of
\* the reader, footer included, is what it was before the call; a non-FDE
\* event returned by a read carries that same FDE.
C27_FailedReadKeepsFde ==
    /\ rres.res = "err" => reader_fde = prev_fde
    /\ (rres.res = "ok" /\ ~is_fde(event.header)) =>
          (reader_fde = prev_fde /\ event.fde = prev_fde)

\* a complete FDE event that does not decode was read while the FDE of an
\* earlier FDE event, with a CRC32 footer, was active
C27_Witness ==
    /\ rres.res = "err"
    /\ ReadComplete
    /\ wire[5] = FORMAT_DESCRIPTION_EVENT
    /\ last_fde_wire # <<>>
    /\ reader_fde.footer.checksum_alg = Some(BINLOG_CHECKSUM_ALG_CRC32)
    /\ reader_fde = DecodedFde(last_fde_wire)

\* the last read was of a complete non-FDE event, of a declared size that
\* covers its header, with fewer than 4 body bytes while the active footer
\* asks for a checksum
ShortBodyUnderChecksum ==
    /\ ReadComplete
    /\ wire \notin ShortSized
    /\ wire[5] # FORMAT_DESCRIPTION_EVENT
    /\ prev_fde.footer.checksum_alg.some
    /\ prev_fde.footer.checksum_alg.v # BINLOG_CHECKSUM_ALG_OFF
    /\ Len(wire) - BinlogEventHeader_LEN < BINLOG_CHECKSUM_LEN

\* C28: when the checksum trailer is to be removed from an event whose body
\* is shorter than the trailer, Event::read returns an error value.
C28_ShortBodyIsError ==
    ShortBodyUnderChecksum => (phase = "open" /\ rres.res = "err")

\* C29: BinlogFile::next returns None only when the source is exhausted: a
\* read that found a complete event in the source, such as an FDE event
\* whose body is too short to decode, does not end the iteration.
C29_NoneOnlyAtEnd ==
    (phase = "open" /\ item = "none") => wire \notin CompleteEvents

(***************************************************************************)
(* A StatusVarsIterator that is called again after it returned None.       *)
(***************************************************************************)
\* calls of next() on one iterator
MaxCalls == 4

InitFused ==
    /\ InitStream
    /\ HdrOff
    /\ cd_in \in StatusVarBlocks
    /\ cd_pc = "fresh"
    /\ cd_val = StatusVarsIterator_new(cd_in)
    /\ cd_out = <<>>

\* a call of next(), whatever the calls before it returned: cd_out lists the
\* position of the iterator at each call and the Option the call returned
StatusVarsIterator_call ==
    /\ Len(cd_out) < MaxCalls
    /\ LET r == StatusVarsIterator_next(cd_in, cd_val.pos)
       IN  /\ cd_val' = [cd_val EXCEPT !.pos = r.pos]
           /\ cd_out' = Append(cd_out, [at |-> cd_val.pos, item |-> r.item])
           /\ cd_pc' = IF r.item.some THEN "some" ELSE "none"
    /\ UNCHANGED cd_in
    /\ UNCHANGED <<streamVars, hdrVars>>

SpecFused == InitFused /\ [][StatusVarsIterator_call]_vars

\* C30: once a call of next() has returned None, every later call on the
\* same iterator returns None.
C30_Fused ==
    \A i \in 1..Len(cd_out) : \A j \in i..Len(cd_out) :
        ~cd_out[i].item.some => ~cd_out[j].item.some

====
